---- MODULE Spec2Model ----
(***************************************************************************)
(* ONEPAGE digital business cards: the share-link codec of App.tsx         *)
(* (compressAndEncode / toUrlSafeBase64 / fromUrlSafeBase64 /              *)
(* decodeAndDecompress) and the application flows that use it              *)
(* (initializeApp, createAndShareLink, handleCopyShareLink,                *)
(* handleAddReceivedCard, ...).                                            *)
(*                                                                         *)
(* The codec works on sequences of characters (one-character strings; a    *)
(* character outside ASCII is written by its code point name, e.g.         *)
(* "U+D55C") and on sequences of bytes 0..255.  The state keeps a text     *)
(* packed: its runs of ASCII characters as strings, its other characters   *)
(* by name; a URL, which is ASCII, is one string.                          *)
(*                                                                         *)
(* gzip is written as one stored DEFLATE block: a real gzip stream of the  *)
(* bytes, which a decompressor reads back, but no shorter than its input.  *)
(***************************************************************************)
EXTENDS Integers, Sequences, FiniteSets, Bags, TLC

\* ------------------------------------------------------------------------
\* Bounds of the model
\* ------------------------------------------------------------------------
\* most members of one object / items of one array a JSON text of the model has
MaxItems == 32
\* length of the long biography an editor can type
LongBioLen == 400
\* most cards one user saves
MaxCards == 1
\* most handlers suspended at an await at one time
MaxTasks == 1
\* length of the longest string the URL-safe transform is tried on alone
MaxInputLen == 4

\* ------------------------------------------------------------------------
\* Text helpers
\* ------------------------------------------------------------------------
Chars(str) == [i \in 1..Len(str) |-> SubSeq(str, i, i)]

Range(s) == {s[i] : i \in DOMAIN s}

Indices(s) == [i \in 1..Len(s) |-> i]

RECURSIVE Flatten(_)
Flatten(ss) ==
    IF Len(ss) = 0 THEN <<>>
    ELSE IF Len(ss) = 1 THEN ss[1]
    ELSE LET h == Len(ss) \div 2
         IN  Flatten(SubSeq(ss, 1, h)) \o Flatten(SubSeq(ss, h + 1, Len(ss)))

RECURSIVE SumSeq(_)
SumSeq(ns) ==
    IF Len(ns) = 0 THEN 0
    ELSE IF Len(ns) = 1 THEN ns[1]
    ELSE LET h == Len(ns) \div 2
         IN  SumSeq(SubSeq(ns, 1, h)) + SumSeq(SubSeq(ns, h + 1, Len(ns)))

\* the string of a sequence of ASCII characters
RECURSIVE Str(_)
Str(cs) ==
    IF Len(cs) = 0 THEN ""
    ELSE IF Len(cs) = 1 THEN cs[1]
    ELSE Str(SubSeq(cs, 1, Len(cs) \div 2)) \o Str(SubSeq(cs, Len(cs) \div 2 + 1, Len(cs)))

\* a character that is written by name
IsNamed(c) == Len(c) = 6 /\ SubSeq(c, 1, 2) = "U+"

\* the packed text of a string
Packed(str) == IF str = "" THEN <<>> ELSE <<str>>

\* the characters of a packed text
Unpack(text) ==
    Flatten([i \in 1..Len(text) |-> IF IsNamed(text[i]) THEN <<text[i]>> ELSE Chars(text[i])])

\* the packed text of a sequence of characters
Pack(cs) ==
    LET starts == SelectSeq(Indices(cs),
                            LAMBDA p : p = 1 \/ IsNamed(cs[p]) \/ IsNamed(cs[p - 1]))
    IN  [k \in 1..Len(starts) |->
            IF IsNamed(cs[starts[k]]) THEN cs[starts[k]]
            ELSE Str(SubSeq(cs, starts[k],
                            IF k = Len(starts) THEN Len(cs) ELSE starts[k + 1] - 1))]

\* a + b of two packed texts
Cat(a, b) ==
    IF a = <<>> THEN b
    ELSE IF b = <<>> THEN a
    ELSE IF IsNamed(a[Len(a)]) \/ IsNamed(b[1]) THEN a \o b
    ELSE SubSeq(a, 1, Len(a) - 1) \o <<a[Len(a)] \o b[1]>> \o SubSeq(b, 2, Len(b))

\* the printable ASCII characters, code points 32..126
\* (the grave accent, code 96, cannot be written in a string: it is named)
Grave == "U+0060"
Ascii ==
    Chars(" !\"#$%&'()*+,-./0123456789:;<=>?@ABCDEFGHIJKLMNOPQRSTUVWXYZ[\\]^_")
    \o <<Grave>> \o Chars("abcdefghijklmnopqrstuvwxyz{|}~")

Newline == "\n"
Hangul == "U+D55C"
Arrow == "U+2192"
Replacement == "U+FFFD"

CodePoint ==
    [c \in Range(Ascii) \cup {Newline, Hangul, Arrow, Replacement} |->
        IF c = Newline THEN 10
        ELSE IF c = Hangul THEN 54620
        ELSE IF c = Arrow THEN 8594
        ELSE IF c = Replacement THEN 65533
        ELSE 31 + (CHOOSE i \in 1..Len(Ascii) : Ascii[i] = c)]

CharOfCode(n) ==
    IF n \in 32..126 THEN Ascii[n - 31]
    ELSE IF n = 10 THEN Newline
    ELSE IF n = 54620 THEN Hangul
    ELSE IF n = 8594 THEN Arrow
    ELSE Replacement

\* ------------------------------------------------------------------------
\* UTF-8: new Blob([jsonString]) encodes, Blob.text() decodes (replacing
\* malformed sequences by U+FFFD, never throwing)
\* ------------------------------------------------------------------------
UTF8Bytes(c) ==
    LET n == CodePoint[c]
    IN  IF n < 128 THEN <<n>>
        ELSE IF n < 2048 THEN <<192 + (n \div 64), 128 + (n % 64)>>
        ELSE <<224 + (n \div 4096), 128 + ((n \div 64) % 64), 128 + (n % 64)>>

UTF8Encode(text) == Flatten([i \in 1..Len(text) |-> UTF8Bytes(text[i])])

UTF8SeqLen(b) ==
    IF b < 128 THEN 1
    ELSE IF b \in 192..223 THEN 2
    ELSE IF b \in 224..239 THEN 3
    ELSE IF b \in 240..247 THEN 4
    ELSE 0

UTF8IsCont(b) == b \in 128..191

UTF8ValidLead(bs, p) ==
    /\ UTF8SeqLen(bs[p]) > 0
    /\ p + UTF8SeqLen(bs[p]) - 1 <= Len(bs)
    /\ \A q \in (p + 1)..(p + UTF8SeqLen(bs[p]) - 1) : UTF8IsCont(bs[q])

UTF8Covered(bs, p) ==
    /\ UTF8IsCont(bs[p])
    /\ \E q \in {p - 3, p - 2, p - 1} \cap (1..Len(bs)) :
          UTF8ValidLead(bs, q) /\ q + UTF8SeqLen(bs[q]) > p

UTF8CharAt(bs, p) ==
    IF ~UTF8ValidLead(bs, p) THEN Replacement
    ELSE LET n == UTF8SeqLen(bs[p])
         IN  IF n = 1 THEN CharOfCode(bs[p])
             ELSE IF n = 2 THEN CharOfCode((bs[p] - 192) * 64 + (bs[p + 1] - 128))
             ELSE IF n = 3 THEN CharOfCode((bs[p] - 224) * 4096 + (bs[p + 1] - 128) * 64
                                            + (bs[p + 2] - 128))
             ELSE Replacement

UTF8Decode(bs) ==
    LET starts == SelectSeq(Indices(bs), LAMBDA p : ~UTF8Covered(bs, p))
    IN  [k \in 1..Len(starts) |-> UTF8CharAt(bs, starts[k])]

\* ------------------------------------------------------------------------
\* gzip: CompressionStream('gzip') / DecompressionStream('gzip').
\* The member is written with one stored DEFLATE block (BTYPE=00), which
\* every gzip reader accepts; the CRC-32 of the trailer is a position-weighted
\* checksum of the data, written in its four bytes.
\* ------------------------------------------------------------------------
GzipHeader == <<31, 139, 8, 0, 0, 0, 0, 0, 0, 3>>

LE16(n) == <<n % 256, (n \div 256) % 256>>

LE32(n) == <<n % 256, (n \div 256) % 256, (n \div 65536) % 256, (n \div 16777216) % 256>>

Checksum(bs) == SumSeq([i \in 1..Len(bs) |-> bs[i] * (1 + (i % 251))]) % 1073741824

Gzip(bs) ==
    GzipHeader \o <<1>> \o LE16(Len(bs)) \o LE16(65535 - Len(bs)) \o bs
    \o LE32(Checksum(bs)) \o LE32(Len(bs))

GunzipFail == [ok |-> FALSE, bytes |-> <<>>]

Gunzip(z) ==
    IF Len(z) < 23 THEN GunzipFail
    ELSE LET n    == Len(z) - 23
             body == SubSeq(z, 16, 15 + n)
         IN  IF /\ SubSeq(z, 1, 3) = <<31, 139, 8>>
                /\ z[11] = 1
                /\ SubSeq(z, 12, 13) = LE16(n)
                /\ SubSeq(z, 14, 15) = LE16(65535 - n)
                /\ SubSeq(z, 16 + n, 19 + n) = LE32(Checksum(body))
                /\ SubSeq(z, 20 + n, 23 + n) = LE32(n)
             THEN [ok |-> TRUE, bytes |-> body]
             ELSE GunzipFail

\* ------------------------------------------------------------------------
\* base64: FileReader.readAsDataURL encodes, fetch('data:...;base64,...')
\* decodes (forgiving-base64 decode)
\* ------------------------------------------------------------------------
B64Alphabet == Chars("ABCDEFGHIJKLMNOPQRSTUVWXYZabcdefghijklmnopqrstuvwxyz0123456789+/")

B64Index == [c \in Range(B64Alphabet) |-> (CHOOSE i \in 1..64 : B64Alphabet[i] = c) - 1]

ByteAt(bs, i) == IF i <= Len(bs) THEN bs[i] ELSE 0

Base64Encode(bs) ==
    [k \in 1..(4 * ((Len(bs) + 2) \div 3)) |->
        LET g  == (k - 1) \div 4
            j  == (k - 1) % 4
            b0 == ByteAt(bs, 3 * g + 1)
            b1 == ByteAt(bs, 3 * g + 2)
            b2 == ByteAt(bs, 3 * g + 3)
        IN  IF (j = 2 /\ 3 * g + 2 > Len(bs)) \/ (j = 3 /\ 3 * g + 3 > Len(bs)) THEN "="
            ELSE IF j = 0 THEN B64Alphabet[(b0 \div 4) + 1]
            ELSE IF j = 1 THEN B64Alphabet[(b0 % 4) * 16 + (b1 \div 16) + 1]
            ELSE IF j = 2 THEN B64Alphabet[(b1 % 16) * 4 + (b2 \div 64) + 1]
            ELSE B64Alphabet[(b2 % 64) + 1]]

IsAsciiWhitespace(c) == c \in {" ", Newline}

StripPadding(s) ==
    IF Len(s) > 0 /\ Len(s) % 4 = 0 /\ s[Len(s)] = "="
    THEN IF s[Len(s) - 1] = "=" THEN SubSeq(s, 1, Len(s) - 2) ELSE SubSeq(s, 1, Len(s) - 1)
    ELSE s

SextetAt(s, i) == IF i <= Len(s) THEN B64Index[s[i]] ELSE 0

Base64DecodeFail == [ok |-> FALSE, bytes |-> <<>>]

Base64Decode(str) ==
    LET s == StripPadding(SelectSeq(str, LAMBDA c : ~IsAsciiWhitespace(c)))
    IN  IF Len(s) % 4 = 1 \/ \E i \in 1..Len(s) : s[i] \notin Range(B64Alphabet)
        THEN Base64DecodeFail
        ELSE [ok |-> TRUE,
              bytes |-> [m \in 1..((Len(s) * 3) \div 4) |->
                  LET g  == (m - 1) \div 3
                      j  == (m - 1) % 3
                      c0 == SextetAt(s, 4 * g + 1)
                      c1 == SextetAt(s, 4 * g + 2)
                      c2 == SextetAt(s, 4 * g + 3)
                      c3 == SextetAt(s, 4 * g + 4)
                  IN  IF j = 0 THEN c0 * 4 + (c1 \div 16)
                      ELSE IF j = 1 THEN (c1 % 16) * 16 + (c2 \div 4)
                      ELSE (c2 % 4) * 64 + c3]]

\* toUrlSafeBase64 without its last replace: the padding stays
toUrlSafeBase64_KeepsPadding(base64) ==
    [i \in 1..Len(base64) |->
        IF base64[i] = "+" THEN "-" ELSE IF base64[i] = "/" THEN "_" ELSE base64[i]]

\* App.tsx: toUrlSafeBase64
\* base64.replace(/\+/g, '-').replace(/\//g, '_').replace(/=/g, '')
toUrlSafeBase64(base64) ==
    LET replaced == [i \in 1..Len(base64) |->
                        IF base64[i] = "+" THEN "-"
                        ELSE IF base64[i] = "/" THEN "_"
                        ELSE base64[i]]
    IN  SelectSeq(replaced, LAMBDA c : c # "=")

\* fromUrlSafeBase64 without its replaces: only the padding is restored
fromUrlSafeBase64_PadsOnly(safeBase64) ==
    safeBase64 \o [i \in 1..((4 - (Len(safeBase64) % 4)) % 4) |-> "="]

\* fromUrlSafeBase64 with `if` for `while`: one '=' at most is appended
PadLoop_Once(base64) ==
    IF Len(base64) % 4 # 0 THEN Append(base64, "=") ELSE base64

\* while (base64.length % 4) { base64 += '='; }
RECURSIVE PadLoop(_)
PadLoop(base64) ==
    IF Len(base64) % 4 # 0 THEN PadLoop(Append(base64, "=")) ELSE base64

\* App.tsx: fromUrlSafeBase64
\* replace(/-/g, '+').replace(/_/g, '/'); while (length % 4) base64 += '='
fromUrlSafeBase64(safeBase64) ==
    LET base64 == [i \in 1..Len(safeBase64) |->
                      IF safeBase64[i] = "-" THEN "+"
                      ELSE IF safeBase64[i] = "_" THEN "/"
                      ELSE safeBase64[i]]
    IN  PadLoop(base64)


\* ------------------------------------------------------------------------
\* JSON values, JSON.stringify and JSON.parse
\* ------------------------------------------------------------------------
\* A value carries its JavaScript type; an object keeps its members in
\* insertion order, as JSON.stringify writes them and JSON.parse reads them.
JStr(s)  == [t |-> "str",  v |-> s]
JNum(n)  == [t |-> "num",  v |-> n]
JBool(b) == [t |-> "bool", v |-> b]
JArr(a)  == [t |-> "arr",  v |-> a]
JObj(m)  == [t |-> "obj",  v |-> m]
JNull    == [t |-> "null", v |-> 0]
\* the value of a property that is absent
JUndefined == [t |-> "undefined", v |-> 0]

Member(k, val) == [k |-> Packed(k), v |-> val]

HasKey(o, k) == o.t = "obj" /\ \E i \in 1..Len(o.v) : o.v[i].k = Packed(k)

\* o[k] in JavaScript, for o other than null and undefined
Get(o, k) ==
    IF HasKey(o, k)
    THEN o.v[CHOOSE i \in 1..Len(o.v) :
                /\ o.v[i].k = Packed(k)
                /\ \A j \in (i + 1)..Len(o.v) : o.v[j].k # Packed(k)].v
    ELSE JUndefined

Truthy(val) ==
    CASE val.t = "str"  -> val.v # <<>>
      [] val.t = "num"  -> val.v # 0
      [] val.t = "bool" -> val.v
      [] val.t \in {"arr", "obj"} -> TRUE
      [] OTHER -> FALSE

RECURSIVE DecimalDigits(_)
DecimalDigits(n) ==
    IF n < 10 THEN <<CharOfCode(48 + n)>>
    ELSE DecimalDigits(n \div 10) \o <<CharOfCode(48 + (n % 10))>>

EscapeChar(c) ==
    IF c = "\"" THEN <<"\\", "\"">>
    ELSE IF c = "\\" THEN <<"\\", "\\">>
    ELSE IF c = Newline THEN <<"\\", "n">>
    ELSE <<c>>

QuoteString(str) ==
    <<"\"">> \o Flatten([i \in 1..Len(str) |-> EscapeChar(str[i])]) \o <<"\"">>

JoinComma(parts) ==
    Flatten([i \in 1..Len(parts) |-> IF i = 1 THEN parts[i] ELSE <<",">> \o parts[i]])

RECURSIVE JSONstringify(_)
JSONstringify(val) ==
    CASE val.t = "str"  -> QuoteString(Unpack(val.v))
      [] val.t = "num"  -> DecimalDigits(val.v)
      [] val.t = "bool" -> IF val.v THEN Chars("true") ELSE Chars("false")
      [] val.t = "null" -> Chars("null")
      [] val.t = "arr"  ->
            <<"[">> \o JoinComma([i \in 1..Len(val.v) |-> JSONstringify(val.v[i])]) \o <<"]">>
      [] val.t = "obj"  ->
            \* a member whose value is undefined is left out
            LET ms == SelectSeq(val.v, LAMBDA m : m.v.t # "undefined")
            IN  <<"{">>
                \o JoinComma([i \in 1..Len(ms) |->
                       QuoteString(Unpack(ms[i].k)) \o <<":">> \o JSONstringify(ms[i].v)])
                \o <<"}">>

ParseFail == [ok |-> FALSE, val |-> JNull, pos |-> 0, done |-> TRUE]

ParseOk(val, pos) == [ok |-> TRUE, val |-> val, pos |-> pos, done |-> TRUE]

IsJsonWhitespace(c) == c \in {" ", Newline}

RECURSIVE SkipWs(_, _)
SkipWs(s, i) ==
    IF 1 <= i /\ i <= Len(s) /\ IsJsonWhitespace(s[i]) THEN SkipWs(s, i + 1) ELSE i

\* number of consecutive backslashes that end at position j (none before lo)
RECURSIVE BackslashRun(_, _, _)
BackslashRun(s, lo, j) ==
    IF j < lo \/ s[j] # "\\" THEN 0 ELSE 1 + BackslashRun(s, lo, j - 1)

IsClosingQuote(s, lo, j) == s[j] = "\"" /\ BackslashRun(s, lo, j - 1) % 2 = 0

IsEscapeLead(s, p) == s[p] = "\\" /\ BackslashRun(s, 1, p - 1) % 2 = 0

IsEscapeTail(s, p) == p > 1 /\ IsEscapeLead(s, p - 1)

Unescaped(c) == IF c = "n" THEN Newline ELSE c

\* the string whose opening quote is at position i - 1
ParseString(s, i) ==
    IF ~\E j \in i..Len(s) : IsClosingQuote(s, i, j) THEN ParseFail
    ELSE LET end    == CHOOSE j \in i..Len(s) :
                           /\ IsClosingQuote(s, i, j)
                           /\ \A k \in i..(j - 1) : ~IsClosingQuote(s, i, k)
             raw    == SubSeq(s, i, end - 1)
             starts == SelectSeq(Indices(raw), LAMBDA p : ~IsEscapeTail(raw, p))
         IN  IF \E p \in 1..Len(raw) :
                   \/ raw[p] = Newline
                   \/ IsEscapeTail(raw, p) /\ raw[p] \notin {"\"", "\\", "/", "n"}
             THEN ParseFail
             ELSE ParseOk(JStr(Pack([k \in 1..Len(starts) |->
                                        IF IsEscapeLead(raw, starts[k])
                                        THEN Unescaped(raw[starts[k] + 1])
                                        ELSE raw[starts[k]]])),
                          end + 1)

IsDigit(c) == c \in Range(Chars("0123456789"))

RECURSIVE DigitsEnd(_, _)
DigitsEnd(s, i) == IF i <= Len(s) /\ IsDigit(s[i]) THEN DigitsEnd(s, i + 1) ELSE i

RECURSIVE DigitsValue(_, _, _)
DigitsValue(s, i, j) ==
    IF j < i THEN 0 ELSE DigitsValue(s, i, j - 1) * 10 + (CodePoint[s[j]] - 48)

ParseNumber(s, i) ==
    LET end == IF s[i] = "0" THEN i + 1 ELSE DigitsEnd(s, i)
    IN  ParseOk(JNum(DigitsValue(s, i, end - 1)), end)

ParseLiteral(s, i) ==
    IF i + 3 <= Len(s) /\ SubSeq(s, i, i + 3) = Chars("null") THEN ParseOk(JNull, i + 4)
    ELSE IF i + 3 <= Len(s) /\ SubSeq(s, i, i + 3) = Chars("true") THEN ParseOk(JBool(TRUE), i + 4)
    ELSE IF i + 4 <= Len(s) /\ SubSeq(s, i, i + 4) = Chars("false") THEN ParseOk(JBool(FALSE), i + 5)
    ELSE ParseFail

RECURSIVE ParseValue(_, _)
RECURSIVE ParseElements(_, _, _, _)

\* the colon at position c that follows the key k of an object member
\* (pos: where the value starts)
ParseColon(s, k, c) ==
    IF k.ok /\ c <= Len(s) /\ s[c] = ":" THEN ParseOk(k.val.v, c + 1) ELSE ParseFail

\* the key k of an object member and what follows it
ParseAfterKey(s, k) == ParseColon(s, k, SkipWs(s, k.pos))

\* the key of an object member; an array item has none
ParseKey(s, i, isObject) ==
    IF ~isObject THEN ParseOk(<<>>, i)
    ELSE IF i > Len(s) \/ s[i] # "\"" THEN ParseFail
    ELSE ParseAfterKey(s, ParseString(s, i + 1))

\* after the element r with key k: the separator at position j
ParseSeparator(s, k, r, j, isObject) ==
    IF ~r.ok \/ j > Len(s) THEN ParseFail
    ELSE IF s[j] \notin {",", IF isObject THEN "}" ELSE "]"} THEN ParseFail
    ELSE [ok   |-> TRUE,
          val  |-> IF isObject THEN <<[k |-> k.val, v |-> r.val]>> ELSE <<r.val>>,
          pos  |-> IF s[j] = "," THEN SkipWs(s, j + 1) ELSE j + 1,
          done |-> s[j] # ","]

\* the value of an element whose key is k
ParseKeyed(s, k, r, isObject) == ParseSeparator(s, k, r, SkipWs(s, r.pos), isObject)

\* one array item or one object member, and the separator after it
ParseElement(s, k, isObject) ==
    IF ~k.ok THEN ParseFail ELSE ParseKeyed(s, k, ParseValue(s, k.pos), isObject)

\* the elements b that follow the elements a
ParseMore(a, b) ==
    IF ~b.ok THEN b
    ELSE [ok |-> TRUE, val |-> a.val \o b.val, pos |-> b.pos, done |-> b.done]

\* after the elements a: at most n more
ParseRest(s, a, n, isObject) ==
    IF ~a.ok \/ a.done THEN a ELSE ParseMore(a, ParseElements(s, a.pos, n, isObject))

\* at most n elements from position i, halving n to keep the nesting shallow
ParseElements(s, i, n, isObject) ==
    IF n = 1 THEN ParseElement(s, ParseKey(s, i, isObject), isObject)
    ELSE ParseRest(s, ParseElements(s, i, n \div 2, isObject), n - (n \div 2), isObject)

\* the array or object whose elements are r
ParseClose(r, isObject) ==
    IF r.ok /\ r.done
    THEN ParseOk(IF isObject THEN JObj(r.val) ELSE JArr(r.val), r.pos)
    ELSE ParseFail

ParseContainer(s, j, isObject) ==
    IF j > Len(s) THEN ParseFail
    ELSE IF s[j] = (IF isObject THEN "}" ELSE "]")
         THEN ParseOk(IF isObject THEN JObj(<<>>) ELSE JArr(<<>>), j + 1)
    ELSE ParseClose(ParseElements(s, j, MaxItems, isObject), isObject)

\* the value that starts at position j
ParseValueAt(s, j) ==
    IF j > Len(s) THEN ParseFail
    ELSE IF s[j] = "\"" THEN ParseString(s, j + 1)
    ELSE IF s[j] \in {"{", "["} THEN ParseContainer(s, SkipWs(s, j + 1), s[j] = "{")
    ELSE IF IsDigit(s[j]) THEN ParseNumber(s, j)
    ELSE ParseLiteral(s, j)

ParseValue(s, i) == ParseValueAt(s, SkipWs(s, i))

\* the end of the text after the value r
ParseEnd(text, r) ==
    IF r.ok /\ SkipWs(text, r.pos) = Len(text) + 1
    THEN [ok |-> TRUE, val |-> r.val]
    ELSE [ok |-> FALSE, val |-> JNull]

\* JSON.parse: ok = FALSE stands for the SyntaxError it throws
JSONparse(text) == ParseEnd(text, ParseValue(text, 1))

\* ------------------------------------------------------------------------
\* App.tsx: compressAndEncode, decodeAndDecompress
\* ------------------------------------------------------------------------
compressAndEncode(data) == Base64Encode(Gzip(UTF8Encode(JSONstringify(data))))

\* ok = FALSE stands for the rejection of the promise (fetch of the data:
\* URL, the decompression stream or JSON.parse failing)
decodeAndDecompress(base64) ==
    LET compressed == Base64Decode(base64)
        bytes      == Gunzip(compressed.bytes)
        parsed     == JSONparse(UTF8Decode(bytes.bytes))
    IN  IF ~compressed.ok THEN [ok |-> FALSE, step |-> "base64", val |-> JNull]
        ELSE IF ~bytes.ok THEN [ok |-> FALSE, step |-> "gzip", val |-> JNull]
        ELSE IF ~parsed.ok THEN [ok |-> FALSE, step |-> "json", val |-> JNull]
        ELSE [ok |-> TRUE, step |-> "done", val |-> parsed.val]


\* ------------------------------------------------------------------------
\* types.ts and constants.tsx: the card data
\* ------------------------------------------------------------------------
Text(str) == JStr(Packed(str))

Media(src, aspectRatio) ==
    JObj(<<Member("src", JStr(src)), Member("aspectRatio", JNum(aspectRatio))>>)

ContactInfo(id, type, value) ==
    JObj(<<Member("id", Text(id)), Member("type", Text(type)), Member("value", Text(value))>>)

SocialLink(id, platform, url) ==
    JObj(<<Member("id", Text(id)), Member("platform", Text(platform)), Member("url", Text(url))>>)

CareerEntry(id, title, company, startDate, endDate, description) ==
    JObj(<<Member("id", Text(id)), Member("title", title), Member("company", Text(company)),
           Member("startDate", Text(startDate)), Member("endDate", Text(endDate)),
           Member("description", Text(description))>>)

ThemeColors(background, text, primary, accent) ==
    JObj(<<Member("background", Text(background)), Member("text", Text(text)),
           Member("primary", Text(primary)), Member("accent", Text(accent))>>)

THEMES_Arctic == ThemeColors("#F9FAFB", "#374151", "#1F2937", "#E5E7EB")

\* getDefaultCardData('en'); the texts of the locale file are short samples
DEFAULT_CARD_DATA ==
    JObj(<<
        Member("bannerImage", Media(<<>>, 1)),
        Member("profilePicture", Media(<<>>, 1)),
        Member("name", JStr(<<"Gildong ", Hangul>>)),
        Member("title", Text("CEO & Founder")),
        Member("company", Text("ONEPAGE")),
        Member("bio", Text("Makes \"one page\" cards.")),
        Member("contactInfo", JArr(<<
            ContactInfo("550e8400-e29b-41d4-a716-446655440011", "phone", "82)10-1234-5678"),
            ContactInfo("550e8400-e29b-41d4-a716-446655440012", "email", "rero45@naver.com"),
            ContactInfo("550e8400-e29b-41d4-a716-446655440013", "address", "Seoul"),
            ContactInfo("550e8400-e29b-41d4-a716-446655440014", "website", "rawstudio.kr")>>)),
        Member("socialLinks", JArr(<<
            SocialLink("550e8400-e29b-41d4-a716-446655440021", "instagram", "https://instagram.com"),
            SocialLink("550e8400-e29b-41d4-a716-446655440022", "youtube",
                       "https://www.youtube.com/@ONEPAGE")>>)),
        Member("careerHistory", JArr(<<
            CareerEntry("550e8400-e29b-41d4-a716-446655440001",
                        JStr(<<"2D Supervisor ", Arrow, " Colorist ", Arrow, " Compositor">>),
                        "SEOULVISION", "2008", "2018", "VFX"),
            CareerEntry("550e8400-e29b-41d4-a716-446655440002", Text("CEO & Founder"),
                        "ONEPAGE", "2018", "Present", "Founder")>>)),
        Member("fontFamily", Text("system-ui, sans-serif")),
        Member("nameFontSize", JNum(28)),
        Member("nameFontWeight", JNum(700)),
        Member("nameFontColor", Text("#1F2937")),
        Member("titleFontSize", JNum(16)),
        Member("titleFontWeight", JNum(500)),
        Member("titleFontColor", Text("#374151")),
        Member("companyFontSize", JNum(18)),
        Member("companyFontWeight", JNum(600)),
        Member("companyFontColor", Text("#1F2937")),
        Member("baseFontSize", JNum(14)),
        Member("baseFontWeight", JNum(400)),
        Member("baseFontColor", Text("#374151")),
        Member("layout", Text("classic"))>>)

\* { ...prev, [field]: value }
SetField(o, field, value) ==
    IF HasKey(o, field)
    THEN JObj([i \in 1..Len(o.v) |->
                  IF o.v[i].k = Packed(field) THEN Member(field, value) ELSE o.v[i]])
    ELSE JObj(Append(o.v, Member(field, value)))

\* SavedCard
SavedCard(id, cardData, theme, thumbnail, isPublic) ==
    [id |-> id, cardData |-> cardData, theme |-> theme,
     thumbnail |-> thumbnail, isPublic |-> isPublic]

\* what the editor's form can put into a field
LongBio == <<Str([i \in 1..LongBioLen |-> "a"])>>

DataChanges == { <<"bio", JStr(LongBio)>> }


\* { cardData, theme }
CardAndTheme(data, colors) == JObj(<<Member("cardData", data), Member("theme", colors)>>)

\* createAndShareLink: the fields simplifiedData keeps of cardData
SimplifiedFields ==
    <<"name", "title", "company", "bio", "contactInfo", "socialLinks", "careerHistory">>

\* createAndShareLink: simplifiedData
SimplifiedData(dataToShare) ==
    LET cd == Get(dataToShare, "cardData")
    IN  CardAndTheme(JObj([i \in 1..Len(SimplifiedFields) |->
                              Member(SimplifiedFields[i], Get(cd, SimplifiedFields[i]))]),
                     Get(dataToShare, "theme"))

\* what the Share and Copy Link buttons of the model can be given to encode
EditedCards ==
    {DEFAULT_CARD_DATA} \cup {SetField(DEFAULT_CARD_DATA, c[1], c[2]) : c \in DataChanges}

SharePayloads ==
    LET full == {CardAndTheme(d, THEMES_Arctic) : d \in EditedCards}
    IN  full \cup {SimplifiedData(p) : p \in full}

\* ------------------------------------------------------------------------
\* The share URL
\* ------------------------------------------------------------------------
\* `${window.location.protocol}//${window.location.host}${window.location.pathname}`
BaseUrl == "https://onepage.example/"

CardQuery == "?card="

\* the url built on window.location.href of a page that was opened with a
\* query string of its own: `${href}&card=${safeEncodedData}`
ShareUrl_FromHref(safeEncodedData) ==
    BaseUrl \o "?ref=mail" \o "&card=" \o Str(safeEncodedData)

\* `${baseUrl}?card=${safeEncodedData}`
ShareUrl(safeEncodedData) == BaseUrl \o CardQuery \o Str(safeEncodedData)

IsPrefix(pre, str) == Len(pre) <= Len(str) /\ SubSeq(str, 1, Len(pre)) = pre

\* URLSearchParams(window.location.search).get('card') of a pasted link
CardParamOf(url) ==
    IF IsPrefix(BaseUrl \o CardQuery, url)
    THEN SubSeq(url, Len(BaseUrl) + Len(CardQuery) + 1, Len(url))
    ELSE ""

\* createAndShareLink: the threshold of `url.length > 2000`
UrlLengthLimit == 2000

\* ------------------------------------------------------------------------
\* Links that arrive from outside
\* ------------------------------------------------------------------------
\* the token of a text that is gzipped and base64-encoded as the page does
TokenOfText(str) == Str(toUrlSafeBase64(Base64Encode(Gzip(UTF8Encode(Chars(str))))))

\* the token of bytes that are base64-encoded only
TokenOfBytes(bytes) == Str(toUrlSafeBase64(Base64Encode(bytes)))

\* Scenario A of the specification
SmallPayload ==
    JObj(<<Member("cardData", JObj(<<
               Member("name", Text("Jane Doe")), Member("title", Text("Engineer")),
               Member("company", Text("Acme")), Member("bio", Text("Builds things.")),
               Member("contactInfo", JArr(<<JObj(<<Member("type", Text("email")),
                                                   Member("value", Text("jane@acme.com"))>>)>>)),
               Member("socialLinks", JArr(<<>>)),
               Member("careerHistory", JArr(<<>>))>>)),
           Member("theme", ThemeColors("#FFFFFF", "#000000", "#111111", "#EEEEEE"))>>)

SmallToken == toUrlSafeBase64(compressAndEncode(SmallPayload))

ReplaceAt(cs, i, c) == [k \in 1..Len(cs) |-> IF k = i THEN c ELSE cs[k]]

\* a payload whose cardData and theme lack the fields the types require
BarePayloadText == "{\"cardData\":{\"name\":\"Jane\"},\"theme\":{\"background\":\"#FFFFFF\"}}"

\* tokens somebody may put after ?card= that make decoding fail
MalformedTokens ==
    { \* Scenario B: the 5th character is not a base64 symbol
      Str(ReplaceAt(SmallToken, 5, "!")),
      \* a length that no padding completes
      Str(SubSeq(SmallToken, 1, 41)),
      \* a corrupted byte in the middle of the stream
      Str(ReplaceAt(SmallToken, 60, IF SmallToken[60] = "A" THEN "B" ELSE "A")),
      \* Scenario C: valid base64 of a truncated gzip stream
      TokenOfBytes(SubSeq(Gzip(UTF8Encode(JSONstringify(SmallPayload))), 1, 40)),
      \* valid base64 and gzip of text that is not JSON
      TokenOfText("hello, world") }

\* tokens that decode to JSON
WellFormedTokens ==
    { \* JSON, but no object with cardData and theme
      TokenOfText("null"),
      TokenOfText("42"),
      TokenOfText("{\"cardData\":{\"name\":\"Jane\"}}"),
      \* cardData and theme present, their required fields missing
      TokenOfText(BarePayloadText),
      \* a complete payload of the spec (Scenario A)
      Str(SmallToken) }

InboundTokens == MalformedTokens \cup WellFormedTokens

\* no card parameter
NoCard == ""

\* decodeAndDecompress(fromUrlSafeBase64(encodedData)) of initializeApp
Decoded(cardParam) == decodeAndDecompress(fromUrlSafeBase64(Chars(cardParam)))

\* the link of the handlers: `${baseUrl}?card=${toUrlSafeBase64(await
\* compressAndEncode(data))}`
LinkOf(data) == ShareUrl(toUrlSafeBase64(compressAndEncode(data)))

\* the links of the payloads the buttons of the model can be given and what
\* the page decodes from the tokens of the model, each computed once
\* (@@ makes the table a value)
LinkTable == [p \in SharePayloads |-> LinkOf(p)] @@ <<>>

Link(data) == IF data \in SharePayloads THEN LinkTable[data] ELSE LinkOf(data)

KnownTokens == InboundTokens \cup {CardParamOf(LinkTable[p]) : p \in SharePayloads}

DecodeTable == [cardParam \in KnownTokens |-> Decoded(cardParam)] @@ <<>>

Decode(cardParam) ==
    IF cardParam \in KnownTokens THEN DecodeTable[cardParam] ELSE Decoded(cardParam)

\* ------------------------------------------------------------------------
\* State
\* ------------------------------------------------------------------------
\* the accounts of the model; "admin" is the administrator's
Users == {"alice"}
NoUser == ""
NoId == 0
NoAlert == ""
NoError == ""
CardIds == 1..(2 * MaxCards + MaxTasks)

VARIABLES
    \* the browser
    address,        \* the card parameter of window.location.search ("": none)
    storage,        \* localStorage: cards_<user>
    handed,         \* what the last step gave to navigator.share or clipboard.writeText
    alert,          \* the message of the alert() the last step raised
    caught,         \* the error the catch of initializeApp got in the last step
    uncaught,       \* errors of this page load that no handler caught
    \* React state of AppContent
    cardData, theme, isExporting, exportMessage, savedCards, receivedCard,
    copySuccess, saveSuccess, currentUser, isAdmin, appMode, editingCardId,
    isLoadingApp,
    \* control
    initPc,         \* initializeApp: "start", "decode" (awaiting), "done"
    cardDataParam,  \* initializeApp: its const cardDataParam while it awaits
    tasks,          \* the handlers suspended at an await (a bag)
    \* the codec on its own: a payload, its token, the outcome of decoding it,
    \* and the outcome of decoding it once more
    plain, token, outcome, again

browserVars == <<address, storage, uncaught>>
editorVars == <<cardData, theme, editingCardId>>
exportVars == <<isExporting, exportMessage, copySuccess, saveSuccess>>
sessionVars == <<currentUser, isAdmin, appMode, savedCards>>
codecVars == <<plain, token, outcome, again>>
initVars == <<initPc, cardDataParam>>
appVars == <<browserVars, handed, alert, caught, editorVars, exportVars, sessionVars,
             receivedCard, isLoadingApp, initVars, tasks>>
vars == <<appVars, codecVars>>

NothingHanded == [sink |-> "none", title |-> <<>>, text |-> <<>>, url |-> ""]

\* what a step shows and hands over
Outputs(message, given) ==
    /\ alert' = message
    /\ handed' = given
    /\ caught' = NoError
    /\ UNCHANGED codecVars

Silent == Outputs(NoAlert, NothingHanded)

\* the bag of suspended handlers
EmptyTasks == EmptyBag
AddTask(b, t) == b (+) SetToBag({t})
RemoveTask(b, t) == b (-) SetToBag({t})
Suspended == BagToSet(tasks)

Task(kind, pc, data, text, user, cards, edit) ==
    [kind |-> kind, pc |-> pc, data |-> data, text |-> text,
     user |-> user, cards |-> cards, edit |-> edit]

\* ------------------------------------------------------------------------
\* CardPreview.tsx: does rendering <CardPreview data theme> complete?
\* (FALSE: a TypeError is thrown while rendering)
\* ------------------------------------------------------------------------
IsNullish(val) == val.t \in {"null", "undefined"}

\* xs.map(...) / xs.forEach(...) over entries whose fields are read
MapsOver(xs) == xs.t = "arr" /\ \A i \in 1..Len(xs.v) : ~IsNullish(xs.v[i])

\* getContactLink: info.value.startsWith for 'website' and 'youtube'
ContactLinksOk(xs) ==
    \A i \in 1..Len(xs.v) :
        Get(xs.v[i], "type") \in {Text("website"), Text("youtube")}
            => Get(xs.v[i], "value").t = "str"

CardPreviewRenders(data) ==
    LET layout        == Get(data, "layout")
        bannerImage   == Get(data, "bannerImage")
        careerHistory == Get(data, "careerHistory")
        contactInfo   == Get(data, "contactInfo")
        socialLinks   == Get(data, "socialLinks")
    IN  \* renderClassicLayout, renderBannerFocusLayout, renderModernLayout:
        \* bannerImage.aspectRatio
        /\ layout # Text("minimalist") => ~IsNullish(bannerImage)
        \* SharedContent
        /\ Truthy(careerHistory) /\ careerHistory.t \in {"str", "arr"} /\ careerHistory.v # <<>>
              => MapsOver(careerHistory)
        /\ MapsOver(contactInfo) /\ ContactLinksOk(contactInfo)
        /\ MapsOver(socialLinks)
        \* generateVCard: name.split(' ')
        /\ Get(data, "name").t = "str"

\* the render of the received-card modal threw
RenderError == "TypeError in CardPreview"

\* ------------------------------------------------------------------------
\* Page load
\* ------------------------------------------------------------------------
NotDecoded == [ok |-> FALSE, step |-> "none", val |-> JUndefined]

CodecIdle ==
    /\ plain = JUndefined
    /\ token = ""
    /\ outcome = NotDecoded
    /\ again = NotDecoded

\* the state of a freshly mounted AppContent
Mounted ==
    /\ cardData = DEFAULT_CARD_DATA
    /\ theme = THEMES_Arctic
    /\ isExporting = FALSE
    /\ exportMessage = ""
    /\ savedCards = <<>>
    /\ receivedCard = JNull
    /\ copySuccess = FALSE
    /\ saveSuccess = FALSE
    /\ currentUser = NoUser
    /\ isAdmin = FALSE
    /\ appMode = "hub"
    /\ editingCardId = NoId
    /\ isLoadingApp = TRUE
    /\ initPc = "start"
    /\ cardDataParam = NoCard
    /\ tasks = EmptyTasks
    /\ alert = NoAlert
    /\ caught = NoError
    /\ uncaught = {}

Init ==
    /\ address \in InboundTokens \cup {NoCard}
    /\ storage = [u \in Users |-> <<>>]
    /\ handed = NothingHanded
    /\ Mounted
    /\ CodecIdle

\* initializeApp ending at the catch: the error is thrown on and the rest of
\* the function is not run
InitializeRest_Abandoned(received) ==
    /\ initPc' = "done"
    /\ cardDataParam' = NoCard
    /\ UNCHANGED <<currentUser, isAdmin, isLoadingApp, uncaught>>

\* the rest of initializeApp after the card parameter is dealt with:
\* setCurrentUser(null); setIsAdmin(false); await api.getCompanyInfo();
\* setIsLoadingApp(false) -- and the first render of the page
InitializeRest(received) ==
    /\ currentUser' = NoUser
    /\ isAdmin' = FALSE
    /\ isLoadingApp' = FALSE
    /\ initPc' = "done"
    /\ cardDataParam' = NoCard
    /\ uncaught' = IF received # JNull /\ ~CardPreviewRenders(Get(received, "cardData"))
                   THEN uncaught \cup {RenderError}
                   ELSE uncaught

InvalidLinkAlert == "The shared card link seems to be invalid or corrupted."

\* initializeApp in an effect without its empty dependency list: it runs
\* after every render, not only after the mount
initializeApp_EveryRender ==
    /\ initPc \in {"start", "done"}
    /\ IF address # NoCard
       THEN /\ initPc' = "decode"
            /\ cardDataParam' = address
            /\ UNCHANGED <<currentUser, isAdmin, isLoadingApp, uncaught>>
       ELSE InitializeRest(JNull)
    /\ Silent
    /\ UNCHANGED <<address, storage, editorVars, exportVars, appMode, savedCards,
                   receivedCard, tasks>>

\* initializeApp up to its first await
initializeApp ==
    /\ initPc = "start"
    /\ IF address # NoCard
       THEN /\ initPc' = "decode"
            /\ cardDataParam' = address
            /\ UNCHANGED <<currentUser, isAdmin, isLoadingApp, uncaught>>
       ELSE InitializeRest(JNull)
    /\ Silent
    /\ UNCHANGED <<address, storage, editorVars, exportVars, appMode, savedCards,
                   receivedCard, tasks>>

\* initializeApp without the rejection of its awaited promise: whatever
\* the decode gave is taken
Accepted_Anything(decoded) == TRUE

\* `if (data.cardData && data.theme)`; reading a property of null throws
Accepted(decoded) ==
    /\ decoded.ok
    /\ ~IsNullish(decoded.val)
    /\ Truthy(Get(decoded.val, "cardData"))
    /\ Truthy(Get(decoded.val, "theme"))

\* what the try block of initializeApp throws for a card that is not accepted
ThrownFor(decoded) ==
    IF ~decoded.ok THEN decoded.step
    ELSE IF IsNullish(decoded.val) THEN "TypeError"
    ELSE "Invalid card data structure"

\* the catch of initializeApp without its replaceState: the address stays
RejectLink_KeepsAddress(error) ==
    /\ alert' = InvalidLinkAlert
    /\ caught' = error
    /\ handed' = NothingHanded
    /\ UNCHANGED <<address, receivedCard, codecVars>>

\* catch (error) of initializeApp
RejectLink(error) ==
    /\ alert' = InvalidLinkAlert
    /\ caught' = error
    /\ handed' = NothingHanded
    /\ address' = NoCard
    /\ UNCHANGED <<receivedCard, codecVars>>

\* initializeApp after `await decodeAndDecompress(standardBase64)` settles
initializeApp_decoded ==
    /\ initPc = "decode"
    /\ LET decoded == Decode(cardDataParam)
       IN  /\ IF Accepted(decoded)
              THEN /\ receivedCard' = decoded.val
                   /\ Silent
                   /\ UNCHANGED address
              ELSE RejectLink(ThrownFor(decoded))
           /\ InitializeRest(IF Accepted(decoded) THEN decoded.val ELSE JNull)
    /\ UNCHANGED <<storage, editorVars, exportVars, appMode, savedCards, tasks>>

\* the render threw: React has unmounted the page
Crashed == RenderError \in uncaught

\* the page is up and takes input
Interactive == initPc = "done" /\ ~Crashed


\* ------------------------------------------------------------------------
\* Session: LoginModal -> handleLogin, handleLogout, loadUserData
\* ------------------------------------------------------------------------
\* api.getCards
getCards(userId) == storage[userId]

\* handleLogin, and the loadUserData effect that the new currentUser triggers
handleLogin(username) ==
    /\ Interactive
    /\ currentUser = NoUser
    /\ currentUser' = username
    /\ isAdmin' = (username = "admin")
    /\ appMode' = IF username = "admin" THEN appMode ELSE "hub"
    /\ savedCards' = getCards(username)
    /\ Silent
    /\ UNCHANGED <<browserVars, editorVars, exportVars, receivedCard, isLoadingApp,
                   initVars, tasks>>

\* handleLogout that also drops the received card
handleLogout_DropsReceived ==
    /\ Interactive
    /\ currentUser # NoUser
    /\ isAdmin \/ appMode = "hub"
    /\ currentUser' = NoUser
    /\ isAdmin' = FALSE
    /\ appMode' = "hub"
    /\ savedCards' = <<>>
    /\ receivedCard' = JNull
    /\ Silent
    /\ UNCHANGED <<browserVars, editorVars, exportVars, isLoadingApp, initVars, tasks>>

\* handleLogout (Hub and AdminPage carry the button), and loadUserData's
\* branch for no user
handleLogout ==
    /\ Interactive
    /\ currentUser # NoUser
    /\ isAdmin \/ appMode = "hub"
    /\ currentUser' = NoUser
    /\ isAdmin' = FALSE
    /\ appMode' = "hub"
    /\ savedCards' = <<>>
    /\ Silent
    /\ UNCHANGED <<browserVars, editorVars, exportVars, receivedCard, isLoadingApp,
                   initVars, tasks>>

\* the Hub is on screen
InHub == Interactive /\ currentUser # NoUser /\ ~isAdmin /\ appMode = "hub"

\* the editor is on screen
InEditor == Interactive /\ currentUser # NoUser /\ ~isAdmin /\ appMode = "editor"

\* ------------------------------------------------------------------------
\* Editor
\* ------------------------------------------------------------------------
handleCreateNewCard ==
    /\ InHub
    /\ cardData' = DEFAULT_CARD_DATA
    /\ theme' = THEMES_Arctic
    /\ editingCardId' = NoId
    /\ appMode' = "editor"
    /\ Silent
    /\ UNCHANGED <<browserVars, exportVars, currentUser, isAdmin, savedCards,
                   receivedCard, isLoadingApp, initVars, tasks>>

handleEditCard(cardId) ==
    /\ InHub
    /\ \E i \in 1..Len(savedCards) :
          /\ savedCards[i].id = cardId
          /\ cardData' = savedCards[i].cardData
          /\ theme' = savedCards[i].theme
    /\ editingCardId' = cardId
    /\ appMode' = "editor"
    /\ Silent
    /\ UNCHANGED <<browserVars, exportVars, currentUser, isAdmin, savedCards,
                   receivedCard, isLoadingApp, initVars, tasks>>

\* the Close button of the editor: setAppMode('hub')
closeEditor ==
    /\ InEditor
    /\ appMode' = "hub"
    /\ Silent
    /\ UNCHANGED <<browserVars, editorVars, exportVars, currentUser, isAdmin, savedCards,
                   receivedCard, isLoadingApp, initVars, tasks>>

handleDataChange(field, value) ==
    /\ InEditor
    /\ cardData' = SetField(cardData, field, value)
    /\ cardData' # cardData
    /\ Silent
    /\ UNCHANGED <<browserVars, theme, editingCardId, exportVars, sessionVars,
                   receivedCard, isLoadingApp, initVars, tasks>>

\* ------------------------------------------------------------------------
\* Saved cards
\* ------------------------------------------------------------------------
IndexOfCard(cards, cardId) ==
    IF \E i \in 1..Len(cards) : cards[i].id = cardId
    THEN CHOOSE i \in 1..Len(cards) : cards[i].id = cardId /\ \A j \in 1..(i - 1) : cards[j].id # cardId
    ELSE 0

\* ids that a card of the state carries
UsedIds ==
    {savedCards[i].id : i \in 1..Len(savedCards)}
    \cup UNION {{storage[u][i].id : i \in 1..Len(storage[u])} : u \in DOMAIN storage}
    \cup UNION {{t.cards[i].id : i \in 1..Len(t.cards)} : t \in Suspended}
    \cup {editingCardId}

FreshIds == CardIds \ UsedIds

\* the cards of a list that were made since the page was first opened: they
\* carry an id of CardIds (a card that localStorage held before does not)
MadeHere(cards) == Cardinality({i \in 1..Len(cards) : cards[i].id \in CardIds})

\* crypto.randomUUID(), `received-${Date.now()}`: an id no card carries
\* (which one does not matter: the least)
NewId == CHOOSE id \in FreshIds : \A other \in FreshIds : id <= other

\* updateSavedCards: saved = api.saveCards did not throw (localStorage.setItem
\* throws when the quota is exceeded); the result is what it returns
updateSavedCards(user, newCards, saved) ==
    IF user # NoUser /\ saved
    THEN /\ storage' = [storage EXCEPT ![user] = newCards]
         /\ savedCards' = newCards
    ELSE UNCHANGED <<storage, savedCards>>

handleDeleteCard(cardId, saved) ==
    /\ InHub
    /\ IndexOfCard(savedCards, cardId) # 0
    /\ updateSavedCards(currentUser, SelectSeq(savedCards, LAMBDA c : c.id # cardId), saved)
    /\ Silent
    /\ UNCHANGED <<address, uncaught, editorVars, exportVars, currentUser, isAdmin,
                   appMode, receivedCard, isLoadingApp, initVars, tasks>>

handleTogglePrivacy(cardId, saved) ==
    /\ InHub
    /\ IndexOfCard(savedCards, cardId) # 0
    /\ updateSavedCards(currentUser,
                        [i \in 1..Len(savedCards) |->
                            IF savedCards[i].id = cardId
                            THEN [savedCards[i] EXCEPT !.isPublic = ~savedCards[i].isPublic]
                            ELSE savedCards[i]],
                        saved)
    /\ Silent
    /\ UNCHANGED <<address, uncaught, editorVars, exportVars, currentUser, isAdmin,
                   appMode, receivedCard, isLoadingApp, initVars, tasks>>

\* handleSaveCard up to `await html2canvas(...)`; the banner of the cards of
\* the model is empty, so the thumbnail is always rendered.  At most
\* mostTasks handlers are suspended after it and at most mostCards cards are
\* made
handleSaveCardWithin(mostTasks, mostCards) ==
    /\ InEditor
    /\ ~isExporting /\ ~saveSuccess
    /\ BagCardinality(tasks) < mostTasks
    /\ editingCardId = NoId => MadeHere(savedCards) < mostCards /\ FreshIds # {}
    /\ Get(Get(cardData, "bannerImage"), "src") = JStr(<<>>)
    /\ exportMessage' = "Saving thumbnail..."
    /\ isExporting' = TRUE
    /\ tasks' = AddTask(tasks, Task("save", "canvas",
                                    JObj(<<Member("cardData", cardData), Member("theme", theme)>>),
                                    <<>>, currentUser, savedCards, editingCardId))
    /\ Silent
    /\ UNCHANGED <<browserVars, editorVars, copySuccess, saveSuccess, sessionVars,
                   receivedCard, isLoadingApp, initVars>>

handleSaveCard == handleSaveCardWithin(MaxTasks, MaxCards)

\* handleSaveCard after html2canvas resolves, without setEditingCardId
handleSaveCard_canvas_NoEditingId(t, saved) ==
    /\ t \in Suspended /\ t.kind = "save" /\ t.pc = "canvas"
    /\ t.edit = NoId => FreshIds # {}
    /\ LET thumbnail == "image/jpeg"
           newCardId == IF t.edit = NoId THEN NewId ELSE t.edit
           card      == SavedCard(newCardId, Get(t.data, "cardData"), Get(t.data, "theme"),
                                  thumbnail, TRUE)
           newCards  == IF t.edit # NoId
                        THEN [i \in 1..Len(t.cards) |->
                                 IF t.cards[i].id = t.edit
                                 THEN [t.cards[i] EXCEPT !.cardData = card.cardData,
                                                         !.theme = card.theme,
                                                         !.thumbnail = thumbnail]
                                 ELSE t.cards[i]]
                        ELSE Append(t.cards, card)
           success   == t.user # NoUser /\ saved
       IN  /\ updateSavedCards(t.user, newCards, saved)
           /\ saveSuccess' = IF success THEN TRUE ELSE saveSuccess
    /\ isExporting' = FALSE
    /\ exportMessage' = ""
    /\ tasks' = RemoveTask(tasks, t)
    /\ Silent
    /\ UNCHANGED <<address, uncaught, cardData, theme, editingCardId, copySuccess, currentUser,
                   isAdmin, appMode, receivedCard, isLoadingApp, initVars>>

\* handleSaveCard after html2canvas resolves
handleSaveCard_canvas(t, saved) ==
    /\ t \in Suspended /\ t.kind = "save" /\ t.pc = "canvas"
    /\ t.edit = NoId => FreshIds # {}
    /\ LET thumbnail == "image/jpeg"
           newCardId == IF t.edit = NoId THEN NewId ELSE t.edit
           card      == SavedCard(newCardId, Get(t.data, "cardData"), Get(t.data, "theme"),
                                  thumbnail, TRUE)
           newCards  == IF t.edit # NoId
                        THEN [i \in 1..Len(t.cards) |->
                                 IF t.cards[i].id = t.edit
                                 THEN [t.cards[i] EXCEPT !.cardData = card.cardData,
                                                         !.theme = card.theme,
                                                         !.thumbnail = thumbnail]
                                 ELSE t.cards[i]]
                        ELSE Append(t.cards, card)
           success   == t.user # NoUser /\ saved
       IN  /\ updateSavedCards(t.user, newCards, saved)
           /\ editingCardId' = IF success /\ t.edit = NoId THEN newCardId ELSE editingCardId
           /\ saveSuccess' = IF success THEN TRUE ELSE saveSuccess
    /\ isExporting' = FALSE
    /\ exportMessage' = ""
    /\ tasks' = RemoveTask(tasks, t)
    /\ Silent
    /\ UNCHANGED <<address, uncaught, cardData, theme, copySuccess, currentUser, isAdmin,
                   appMode, receivedCard, isLoadingApp, initVars>>

\* setTimeout(() => setSaveSuccess(false), 2000)
saveSuccessTimeout ==
    /\ saveSuccess
    /\ saveSuccess' = FALSE
    /\ Silent
    /\ UNCHANGED <<browserVars, editorVars, isExporting, exportMessage, copySuccess,
                   sessionVars, receivedCard, isLoadingApp, initVars, tasks>>


\* ------------------------------------------------------------------------
\* Sharing
\* ------------------------------------------------------------------------
\* getDataForSharing without the look-up of the saved card
getDataForSharing_Live == CardAndTheme(cardData, theme)

getDataForSharing ==
    LET i == IndexOfCard(savedCards, editingCardId)
    IN  IF editingCardId # NoId /\ i # 0
        THEN CardAndTheme(savedCards[i].cardData, savedCards[i].theme)
        ELSE CardAndTheme(cardData, theme)

\* the texts of the length fallback (Korean, by code point)
DigitalCard == <<"U+B514", "U+C9C0", "U+D138", " ", "U+BA85", "U+D568">>

PleaseCheck == <<"U+C744", " ", "U+D655", "U+C778", "U+D574", "U+BCF4", "U+C138", "U+C694", "!">>

FallbackShareText(cardName) ==
    IF Truthy(cardName)
    THEN Cat(cardName.v, Cat(<<"U+C758", " ">>, Cat(DigitalCard, PleaseCheck)))
    ELSE Cat(DigitalCard, PleaseCheck)

DirectShareTitle(cardName) ==
    IF Truthy(cardName) THEN Cat(cardName.v, <<"'s Business Card">>)
    ELSE <<"Digital Business Card">>

DirectShareText(cardName) ==
    IF Truthy(cardName)
    THEN Cat(<<"Check out ">>, Cat(cardName.v, <<"'s digital business card.">>))
    ELSE <<"Check out my digital business card.">>

\* the catch of createAndShareLink without its alert(): the failure is
\* logged to the console only
LinkFailedAlert_Swallowed == NoAlert

LinkFailedAlert == "Link creation failed. Please try again. (ko)"

CopyFailedAlert == "Could not create a shareable link."

PrivateCardAlert == "This card is private. Please make it public before sharing."

ToShare(title, text, url) == [sink |-> "share", title |-> title, text |-> text, url |-> url]

ToClipboard(text) == [sink |-> "clipboard", title |-> <<>>, text |-> text, url |-> ""]

\* the sharing handlers without their finally block
FinishExport_Missing == UNCHANGED <<isExporting, exportMessage>>

\* finally { setIsExporting(false); setExportMessage(''); }
FinishExport ==
    /\ isExporting' = FALSE
    /\ exportMessage' = ""

\* createAndShareLink up to `await compressAndEncode(simplifiedData)`, with
\* at most `most` handlers suspended after it
createAndShareLinkWithin(most, dataToShare) ==
    /\ BagCardinality(tasks) < most
    /\ exportMessage' = "Creating share link..."
    /\ isExporting' = TRUE
    /\ tasks' = AddTask(tasks, Task("share", "encode", SimplifiedData(dataToShare),
                                    <<>>, NoUser, <<>>, NoId))
    /\ Silent
    /\ UNCHANGED <<browserVars, editorVars, copySuccess, saveSuccess, sessionVars,
                   receivedCard, isLoadingApp, initVars>>

createAndShareLink(dataToShare) == createAndShareLinkWithin(MaxTasks, dataToShare)

\* the Share button of the editor
handleShare ==
    /\ InEditor
    /\ ~isExporting
    /\ createAndShareLink(getDataForSharing)

\* the Share button of a card of the Hub, with at most `most` handlers
\* suspended after the click
handleShareCardFromHubWithin(most, cardId) ==
    /\ InHub
    /\ LET i == IndexOfCard(savedCards, cardId)
       IN  /\ i # 0
           /\ IF ~savedCards[i].isPublic
              THEN /\ Outputs(PrivateCardAlert, NothingHanded)
                   /\ UNCHANGED <<browserVars, editorVars, exportVars, sessionVars,
                                  receivedCard, isLoadingApp, initVars, tasks>>
              ELSE createAndShareLinkWithin(most, CardAndTheme(savedCards[i].cardData,
                                                               savedCards[i].theme))

handleShareCardFromHub(cardId) == handleShareCardFromHubWithin(MaxTasks, cardId)

\* the hand-over of createAndShareLink without its length check
ShareHandOver_Unchecked(url, cardName, webShare) ==
    IF webShare
    THEN [given |-> ToShare(DirectShareTitle(cardName), DirectShareText(cardName), url),
          pc |-> "share", text |-> <<url>>]
    ELSE [given |-> ToClipboard(<<url>>), pc |-> "clipboard", text |-> <<>>]

\* the hand-over of createAndShareLink with the fallback taken from 2000
\* characters on
ShareHandOver_AtLimit(url, cardName, webShare) ==
    LET shareText == FallbackShareText(cardName)
        textWithUrl == Cat(shareText, <<" " \o BaseUrl>>)
    IN  IF Len(url) >= UrlLengthLimit
        THEN IF webShare
             THEN [given |-> ToShare(DigitalCard, shareText, BaseUrl), pc |-> "share",
                   text |-> textWithUrl]
             ELSE [given |-> ToClipboard(textWithUrl), pc |-> "clipboard", text |-> <<>>]
        ELSE IF webShare
             THEN [given |-> ToShare(DirectShareTitle(cardName), DirectShareText(cardName), url),
                   pc |-> "share", text |-> <<url>>]
             ELSE [given |-> ToClipboard(<<url>>), pc |-> "clipboard", text |-> <<>>]

\* the hand-over of createAndShareLink once the link is there: what is
\* given, and the await the handler then waits at.  webShare: navigator.share
\* && navigator.canShare (&& navigator.canShare(sharePayload))
ShareHandOver(url, cardName, webShare) ==
    LET shareText == FallbackShareText(cardName)
        textWithUrl == Cat(shareText, <<" " \o BaseUrl>>)
    IN  IF Len(url) > UrlLengthLimit
        THEN IF webShare
             THEN [given |-> ToShare(DigitalCard, shareText, BaseUrl), pc |-> "share",
                   text |-> textWithUrl]
             ELSE [given |-> ToClipboard(textWithUrl), pc |-> "clipboard", text |-> <<>>]
        ELSE IF webShare
             THEN [given |-> ToShare(DirectShareTitle(cardName), DirectShareText(cardName), url),
                   pc |-> "share", text |-> <<url>>]
             ELSE [given |-> ToClipboard(<<url>>), pc |-> "clipboard", text |-> <<>>]

\* createAndShareLink after compressAndEncode settles.  encoded: the promise
\* resolved
createAndShareLink_encoded(t, encoded) ==
    /\ t \in Suspended /\ t.kind = "share" /\ t.pc = "encode"
    /\ IF ~encoded
       THEN \* catch (error)
            /\ Outputs(LinkFailedAlert, NothingHanded)
            /\ FinishExport
            /\ tasks' = RemoveTask(tasks, t)
       ELSE LET url      == Link(t.data)
                cardName == Get(Get(t.data, "cardData"), "name")
            IN  /\ \E webShare \in BOOLEAN :
                      LET over == ShareHandOver(url, cardName, webShare)
                      IN  /\ Outputs(NoAlert, over.given)
                          /\ tasks' = AddTask(RemoveTask(tasks, t),
                                              [t EXCEPT !.pc = over.pc, !.text = over.text])
                /\ UNCHANGED <<isExporting, exportMessage>>
    /\ UNCHANGED <<browserVars, editorVars, copySuccess, saveSuccess, sessionVars,
                   receivedCard, isLoadingApp, initVars>>

\* createAndShareLink with no try around navigator.share: a rejection goes
\* to the catch of the handler
createAndShareLink_shared_Uncaught(t, resolved) ==
    /\ t \in Suspended /\ t.kind = "share" /\ t.pc = "share"
    /\ IF resolved THEN Silent ELSE Outputs(LinkFailedAlert, NothingHanded)
    /\ FinishExport
    /\ tasks' = RemoveTask(tasks, t)
    /\ UNCHANGED <<browserVars, editorVars, copySuccess, saveSuccess, sessionVars,
                   receivedCard, isLoadingApp, initVars>>

\* createAndShareLink after `await navigator.share(...)` settles
createAndShareLink_shared(t, resolved) ==
    /\ t \in Suspended /\ t.kind = "share" /\ t.pc = "share"
    /\ IF resolved
       THEN /\ FinishExport
            /\ tasks' = RemoveTask(tasks, t)
            /\ Silent
       ELSE \* catch (shareError): fall back to the clipboard; the handler
            \* now waits at the writeText of the catch block
            /\ Outputs(NoAlert, ToClipboard(t.text))
            /\ tasks' = AddTask(RemoveTask(tasks, t), [t EXCEPT !.pc = "recover", !.text = <<>>])
            /\ UNCHANGED <<isExporting, exportMessage>>
    /\ UNCHANGED <<browserVars, editorVars, copySuccess, saveSuccess, sessionVars,
                   receivedCard, isLoadingApp, initVars>>

\* handleCopyShareLink up to `await compressAndEncode(dataToShare)`
handleCopyShareLink ==
    /\ InEditor
    /\ ~isExporting
    /\ BagCardinality(tasks) < MaxTasks
    /\ exportMessage' = "Creating share link..."
    /\ isExporting' = TRUE
    /\ tasks' = AddTask(tasks, Task("copy", "encode", getDataForSharing,
                                    <<>>, NoUser, <<>>, NoId))
    /\ Silent
    /\ UNCHANGED <<browserVars, editorVars, copySuccess, saveSuccess, sessionVars,
                   receivedCard, isLoadingApp, initVars>>

\* handleCopyShareLink after compressAndEncode settles
handleCopyShareLink_encoded(t, encoded) ==
    /\ t \in Suspended /\ t.kind = "copy" /\ t.pc = "encode"
    /\ IF ~encoded
       THEN /\ Outputs(CopyFailedAlert, NothingHanded)
            /\ FinishExport
            /\ tasks' = RemoveTask(tasks, t)
       ELSE LET url == Link(t.data)
            IN  /\ Outputs(NoAlert, ToClipboard(<<url>>))
                /\ tasks' = AddTask(RemoveTask(tasks, t), [t EXCEPT !.pc = "clipboard"])
                /\ UNCHANGED <<isExporting, exportMessage>>
    /\ UNCHANGED <<browserVars, editorVars, copySuccess, saveSuccess, sessionVars,
                   receivedCard, isLoadingApp, initVars>>

\* either handler after `await navigator.clipboard.writeText(...)` settles
clipboardSettled(t, resolved) ==
    /\ t \in Suspended /\ t.kind \in {"share", "copy"} /\ t.pc \in {"clipboard", "recover"}
    /\ IF resolved
       THEN /\ copySuccess' = TRUE
            /\ Silent
       ELSE /\ Outputs(IF t.kind = "share" THEN LinkFailedAlert ELSE CopyFailedAlert,
                       NothingHanded)
            /\ UNCHANGED copySuccess
    /\ FinishExport
    /\ tasks' = RemoveTask(tasks, t)
    /\ UNCHANGED <<browserVars, editorVars, saveSuccess, sessionVars, receivedCard,
                   isLoadingApp, initVars>>

\* setTimeout(() => setCopySuccess(false), 2000)
copySuccessTimeout ==
    /\ copySuccess
    /\ copySuccess' = FALSE
    /\ Silent
    /\ UNCHANGED <<browserVars, editorVars, isExporting, exportMessage, saveSuccess,
                   sessionVars, receivedCard, isLoadingApp, initVars, tasks>>

\* ------------------------------------------------------------------------
\* The received card
\* ------------------------------------------------------------------------
\* renderReceivedCardModal renders the card
ModalShown == Interactive /\ receivedCard # JNull

\* handleAddReceivedCard up to `await html2canvas(...)`
handleAddReceivedCard ==
    /\ ModalShown
    /\ currentUser # NoUser
    /\ BagCardinality(tasks) < MaxTasks
    /\ MadeHere(savedCards) < MaxCards /\ FreshIds # {}
    /\ tasks' = AddTask(tasks, Task("add", "canvas", receivedCard, <<>>,
                                    currentUser, savedCards, NoId))
    /\ Silent
    /\ UNCHANGED <<browserVars, editorVars, exportVars, sessionVars, receivedCard,
                   isLoadingApp, initVars>>

\* handleAddReceivedCard after html2canvas resolves
handleAddReceivedCard_canvas(t, saved) ==
    /\ t \in Suspended /\ t.kind = "add" /\ t.pc = "canvas"
    /\ FreshIds # {}
    /\ LET newCard == SavedCard(NewId, Get(t.data, "cardData"), Get(t.data, "theme"),
                                "image/jpeg", TRUE)
       IN  updateSavedCards(t.user, Append(t.cards, newCard), saved)
    /\ receivedCard' = JNull
    /\ address' = NoCard
    /\ tasks' = RemoveTask(tasks, t)
    /\ Silent
    /\ UNCHANGED <<uncaught, editorVars, exportVars, currentUser, isAdmin, appMode,
                   isLoadingApp, initVars>>

\* the Dismiss button of the modal
dismissReceivedCard ==
    /\ ModalShown
    /\ receivedCard' = JNull
    /\ address' = NoCard
    /\ Silent
    /\ UNCHANGED <<storage, uncaught, editorVars, exportVars, sessionVars, isLoadingApp,
                   initVars, tasks>>

\* ------------------------------------------------------------------------
\* The browser loads the page: a reload, or a link that was opened
\* ------------------------------------------------------------------------
\* the link in what was handed over: the url of the share sheet, or what
\* the clipboard's text holds from the page's address on
LinkIn(str) ==
    LET at == {i \in 1..(Len(str) - Len(BaseUrl) + 1) :
                  SubSeq(str, i, i + Len(BaseUrl) - 1) = BaseUrl}
    IN  IF at = {} THEN ""
        ELSE SubSeq(str, CHOOSE i \in at : \A j \in at : i <= j, Len(str))

HandedLink ==
    IF handed.sink = "share" THEN handed.url
    ELSE IF handed.text = <<>> THEN ""
    ELSE LinkIn(handed.text[Len(handed.text)])

Navigate(cardParam) ==
    /\ initPc = "done"
    /\ address' = cardParam
    /\ cardData' = DEFAULT_CARD_DATA
    /\ theme' = THEMES_Arctic
    /\ isExporting' = FALSE
    /\ exportMessage' = ""
    /\ savedCards' = <<>>
    /\ receivedCard' = JNull
    /\ copySuccess' = FALSE
    /\ saveSuccess' = FALSE
    /\ currentUser' = NoUser
    /\ isAdmin' = FALSE
    /\ appMode' = "hub"
    /\ editingCardId' = NoId
    /\ isLoadingApp' = TRUE
    /\ initPc' = "start"
    /\ cardDataParam' = NoCard
    /\ tasks' = EmptyTasks
    /\ uncaught' = {}
    /\ Silent
    /\ UNCHANGED storage

\* window.location.reload(), F5
Reload == Navigate(address)

\* whoever got the link from the share sheet or the clipboard opens it
OpenHandedLink == handed.sink # "none" /\ Navigate(CardParamOf(HandedLink))

\* somebody opens a link that came from elsewhere.  A page load keeps
\* nothing but localStorage, so it is taken from a page at rest
AtRest == currentUser = NoUser /\ tasks = EmptyTasks /\ receivedCard = JNull

OpenInboundLink ==
    /\ AtRest
    /\ \E cardParam \in InboundTokens \cup {NoCard} : Navigate(cardParam)

\* ------------------------------------------------------------------------
\* The application
\* ------------------------------------------------------------------------
AppNext ==
    \/ initializeApp
    \/ initializeApp_decoded
    \/ \E u \in Users : handleLogin(u)
    \/ handleLogout
    \/ handleCreateNewCard
    \/ \E id \in CardIds : handleEditCard(id)
    \/ closeEditor
    \/ \E c \in DataChanges : handleDataChange(c[1], c[2])
    \/ \E id \in CardIds, saved \in BOOLEAN : handleDeleteCard(id, saved)
    \/ \E id \in CardIds, saved \in BOOLEAN : handleTogglePrivacy(id, saved)
    \/ handleSaveCard
    \/ \E t \in Suspended, saved \in BOOLEAN : handleSaveCard_canvas(t, saved)
    \/ saveSuccessTimeout
    \/ handleShare
    \/ \E id \in CardIds : handleShareCardFromHub(id)
    \/ \E t \in Suspended, encoded \in BOOLEAN : createAndShareLink_encoded(t, encoded)
    \/ \E t \in Suspended, resolved \in BOOLEAN : createAndShareLink_shared(t, resolved)
    \/ handleCopyShareLink
    \/ \E t \in Suspended, encoded \in BOOLEAN : handleCopyShareLink_encoded(t, encoded)
    \/ \E t \in Suspended, resolved \in BOOLEAN : clipboardSettled(t, resolved)
    \/ copySuccessTimeout
    \/ handleAddReceivedCard
    \/ \E t \in Suspended, saved \in BOOLEAN : handleAddReceivedCard_canvas(t, saved)
    \/ dismissReceivedCard
    \/ Reload
    \/ OpenHandedLink
    \/ OpenInboundLink

Next == AppNext

Spec == Init /\ [][Next]_vars

\* The mount effect calls initializeApp once, and the event loop resumes an
\* async function when the promise it awaits settles.  The promise of
\* decodeAndDecompress always settles: fetch of a data: URL, the
\* decompression stream and JSON.parse each give a value or throw.
\* api.getCompanyInfo reads localStorage inside a try and never rejects.
Fairness ==
    /\ WF_vars(initializeApp)
    /\ WF_vars(initializeApp_decoded)

FairSpec == Spec /\ Fairness

\* ------------------------------------------------------------------------
\* The page load with an address that changes under it: while initializeApp
\* awaits the decode, the card parameter is taken out of the address
\* (history.replaceState by the hosting page)
\* ------------------------------------------------------------------------
cardParameterCleared ==
    /\ initPc = "decode"
    /\ address # NoCard
    /\ address' = NoCard
    /\ Silent
    /\ UNCHANGED <<storage, uncaught, editorVars, exportVars, sessionVars, receivedCard,
                   isLoadingApp, initVars, tasks>>

NextCancel ==
    \/ AppNext
    \/ cardParameterCleared

SpecCancel == Init /\ [][NextCancel]_vars

\* ------------------------------------------------------------------------
\* Two accounts on one browser: the owner of a private card has used the
\* page before, and somebody else, who does not know the owner's password,
\* is now at the login screen
\* ------------------------------------------------------------------------
Accounts == {"alice", "bob"}

Owner == "alice"

Visitor == "bob"

OwnersPassword == "correct horse"

Passwords == {OwnersPassword, "hunter2", "x"}

KnownToVisitor == Passwords \ {OwnersPassword}

\* auth.login: "Temporary demo mode - bypass Supabase auth for now"
loginUser(username, password) ==
    IF username # "" /\ password # ""
    THEN [success |-> TRUE, user |-> username, error |-> ""]
    ELSE [success |-> FALSE, user |-> "", error |-> "Username and password required"]

\* LoginModal, login view: handleSubmit.  `if (loginSuccess)` tests the
\* object that loginUser resolves to, and an object is truthy
handleSubmit(username, password) ==
    /\ username # "" /\ password # ""
    /\ LET loginSuccess == loginUser(username, password)
       IN  DOMAIN loginSuccess # {}
    /\ handleLogin(username)

\* the card the owner saved and made private
PrivateCard == SavedCard(1, DEFAULT_CARD_DATA, THEMES_Arctic, "image/jpeg", FALSE)

InitAccess ==
    /\ address = NoCard
    /\ storage = [u \in Accounts |-> IF u = Owner THEN <<PrivateCard>> ELSE <<>>]
    /\ handed = NothingHanded
    /\ Mounted
    /\ CodecIdle

NextAccess ==
    \/ initializeApp
    \/ \E username \in Accounts, password \in KnownToVisitor : handleSubmit(username, password)
    \/ handleLogout
    \/ handleCreateNewCard
    \/ \E id \in CardIds : handleEditCard(id)
    \/ closeEditor
    \/ \E c \in DataChanges : handleDataChange(c[1], c[2])
    \/ \E id \in CardIds, saved \in BOOLEAN : handleDeleteCard(id, saved)
    \/ \E id \in CardIds, saved \in BOOLEAN : handleTogglePrivacy(id, saved)
    \/ handleSaveCard
    \/ \E t \in Suspended, saved \in BOOLEAN : handleSaveCard_canvas(t, saved)
    \/ saveSuccessTimeout

SpecAccess == InitAccess /\ [][NextAccess]_vars

\* ------------------------------------------------------------------------
\* The codec on its own: a payload is encoded into a token as the sharing
\* handlers do, and the token is decoded as initializeApp does
\* ------------------------------------------------------------------------
Names ==
    { <<"Jane Doe">>, <<"Gildong ", Hangul>>, <<>>, <<"O\"Neil \\ Sons">>,
      <<"a/b\nc">>, <<Hangul, Arrow, Replacement>> }

Bios == { <<>>, <<"Builds things.">>, <<"???>>>~~~">>, <<"{\"bio\":[1,2]}">> }

ContactLists ==
    { <<>>,
      <<JObj(<<Member("type", Text("email")), Member("value", Text("jane@acme.com"))>>)>> }

\* ShareableCardPayload: text fields only
TextPayload(name, bio, contactInfo) ==
    CardAndTheme(JObj(<<Member("name", JStr(name)), Member("title", Text("Engineer")),
                        Member("company", Text("Acme")), Member("bio", JStr(bio)),
                        Member("contactInfo", JArr(contactInfo)),
                        Member("socialLinks", JArr(<<>>)),
                        Member("careerHistory", JArr(<<>>))>>),
                 THEMES_Arctic)

TextPayloads ==
    {TextPayload(name, bio, c) : name \in Names, bio \in Bios, c \in ContactLists}
    \cup {SimplifiedData(p) : p \in SharePayloads}

\* the app is idle while the codec is looked at
AppIdle ==
    /\ address = NoCard
    /\ storage = [u \in Users |-> <<>>]
    /\ handed = NothingHanded
    /\ Mounted

InitCodec ==
    /\ plain \in TextPayloads
    /\ token = ""
    /\ outcome = NotDecoded
    /\ again = NotDecoded
    /\ AppIdle

\* toUrlSafeBase64(await compressAndEncode(data))
Encode ==
    /\ token = ""
    /\ token' = Str(toUrlSafeBase64(compressAndEncode(plain)))
    /\ UNCHANGED <<plain, outcome, again, appVars>>

\* await decodeAndDecompress(fromUrlSafeBase64(cardDataParam))
DecodeToken ==
    /\ token # ""
    /\ outcome = NotDecoded
    /\ outcome' = Decoded(token)
    /\ UNCHANGED <<plain, token, again, appVars>>

\* a decoder whose input buffer outlives the call: the second call reads
\* the token behind what the first call left there
DecodeAgain_Leftover ==
    /\ token # ""
    /\ outcome # NotDecoded
    /\ again = NotDecoded
    /\ again' = Decoded(token \o token)
    /\ UNCHANGED <<plain, token, outcome, appVars>>

\* the same token is decoded once more
DecodeAgain ==
    /\ token # ""
    /\ outcome # NotDecoded
    /\ again = NotDecoded
    /\ again' = Decoded(token)
    /\ UNCHANGED <<plain, token, outcome, appVars>>

NextCodec == Encode \/ DecodeToken \/ DecodeAgain

SpecCodec == InitCodec /\ [][NextCodec]_vars

\* ------------------------------------------------------------------------
\* The URL-safe transform on its own: fromUrlSafeBase64 is applied to a
\* string, and to what toUrlSafeBase64 makes of that string
\* ------------------------------------------------------------------------
\* characters of both alphabets and the padding character
InputChars == {"A", "+", "/", "-", "_", "="}

\* every string of these characters up to MaxInputLen, two longer ones that
\* are padded base64, and a text that is no base64 at all
InputStrings ==
    {Str(cs) : cs \in UNION {[1..n -> InputChars] : n \in 0..MaxInputLen}}
    \cup {"ab+/AA==", "a/b+c/d=", "hello, world"}

InitUrlSafe ==
    /\ token \in InputStrings
    /\ plain = JUndefined
    /\ outcome = NotDecoded
    /\ again = NotDecoded
    /\ AppIdle

\* fromUrlSafeBase64(token)
FromUrlSafe ==
    /\ ~outcome.ok
    /\ outcome' = [ok |-> TRUE, step |-> "done", val |-> Str(fromUrlSafeBase64(Chars(token)))]
    /\ UNCHANGED <<plain, token, again, appVars>>

\* fromUrlSafeBase64(toUrlSafeBase64(token))
ToAndFromUrlSafe ==
    /\ ~again.ok
    /\ again' = [ok |-> TRUE, step |-> "done",
                 val |-> Str(fromUrlSafeBase64(toUrlSafeBase64(Chars(token))))]
    /\ UNCHANGED <<plain, token, outcome, appVars>>

NextUrlSafe == FromUrlSafe \/ ToAndFromUrlSafe

SpecUrlSafe == InitUrlSafe /\ [][NextUrlSafe]_vars

\* ------------------------------------------------------------------------
\* Sharing at the length limit: the editor holds a card whose biography
\* makes the link of createAndShareLink about UrlLengthLimit characters long
\* ------------------------------------------------------------------------
BioOfLength(n) == <<Str([i \in 1..n |-> "a"])>>

\* the link createAndShareLink assembles for a default card with that biography
LinkForBio(bio) ==
    Link(SimplifiedData(CardAndTheme(SetField(DEFAULT_CARD_DATA, "bio", JStr(bio)),
                                     THEMES_Arctic)))

\* biography lengths around the one whose link has UrlLengthLimit characters
\* (a character of the biography is a byte of the payload, three bytes are
\* four characters of the link)
NearLimitBioLens ==
    LET over == Len(LinkForBio(LongBio)) - UrlLengthLimit
        at   == LongBioLen - (3 * over) \div 4
    IN  {n \in (at - 1)..(at + 1) : n >= 0}

NearLimitChanges == { <<"bio", JStr(BioOfLength(n))>> : n \in NearLimitBioLens }

InitLimit ==
    /\ AppIdle
    /\ CodecIdle

NextLimit ==
    \/ initializeApp
    \/ \E u \in Users : handleLogin(u)
    \/ handleCreateNewCard
    \/ closeEditor
    \/ \E c \in NearLimitChanges : handleDataChange(c[1], c[2])
    \/ handleShare
    \/ \E t \in Suspended, encoded \in BOOLEAN : createAndShareLink_encoded(t, encoded)
    \/ \E t \in Suspended, resolved \in BOOLEAN : createAndShareLink_shared(t, resolved)
    \/ \E t \in Suspended, resolved \in BOOLEAN : clipboardSettled(t, resolved)
    \/ copySuccessTimeout

SpecLimit == InitLimit /\ [][NextLimit]_vars

\* ------------------------------------------------------------------------
\* Importing into a collection: localStorage holds a card of the user from
\* an earlier visit, and the page is opened with a copied link
\* ------------------------------------------------------------------------
EarlierId == 2 * MaxCards + MaxTasks + 1

EarlierCard == SavedCard(EarlierId, DEFAULT_CARD_DATA, THEMES_Arctic, "image/jpeg", TRUE)

\* the link handleCopyShareLink makes of the default card
CopiedLink == CardParamOf(Link(CardAndTheme(DEFAULT_CARD_DATA, THEMES_Arctic)))

InitImport ==
    /\ address = CopiedLink
    /\ storage = [u \in Users |-> <<EarlierCard>>]
    /\ handed = NothingHanded
    /\ Mounted
    /\ CodecIdle

NextImport ==
    \/ initializeApp
    \/ initializeApp_decoded
    \/ \E u \in Users : handleLogin(u)
    \/ handleLogout
    \/ \E id \in CardIds \cup {EarlierId} : handleEditCard(id)
    \/ closeEditor
    \/ \E id \in CardIds \cup {EarlierId}, saved \in BOOLEAN : handleDeleteCard(id, saved)
    \/ \E id \in CardIds \cup {EarlierId}, saved \in BOOLEAN : handleTogglePrivacy(id, saved)
    \/ handleSaveCard
    \/ \E t \in Suspended, saved \in BOOLEAN : handleSaveCard_canvas(t, saved)
    \/ saveSuccessTimeout
    \/ handleAddReceivedCard
    \/ \E t \in Suspended, saved \in BOOLEAN : handleAddReceivedCard_canvas(t, saved)
    \/ dismissReceivedCard

SpecImport == InitImport /\ [][NextImport]_vars

\* ------------------------------------------------------------------------
\* Sharing from the Hub while a handler is in flight: the Hub's Share button
\* is not disabled by isExporting, so a second handler may be suspended
\* ------------------------------------------------------------------------
NextOverlap ==
    \/ initializeApp
    \/ \E u \in Users : handleLogin(u)
    \/ \E id \in {EarlierId} : handleEditCard(id)
    \/ closeEditor
    \/ handleSaveCard
    \/ \E t \in Suspended, saved \in BOOLEAN : handleSaveCard_canvas(t, saved)
    \/ saveSuccessTimeout
    \/ handleShare
    \/ handleCopyShareLink
    \/ \E id \in {EarlierId} : handleShareCardFromHubWithin(MaxTasks + 1, id)
    \/ \E t \in Suspended, encoded \in BOOLEAN : createAndShareLink_encoded(t, encoded)
    \/ \E t \in Suspended, resolved \in BOOLEAN : createAndShareLink_shared(t, resolved)
    \/ \E t \in Suspended, encoded \in BOOLEAN : handleCopyShareLink_encoded(t, encoded)
    \/ \E t \in Suspended, resolved \in BOOLEAN : clipboardSettled(t, resolved)
    \/ copySuccessTimeout

InitOverlap ==
    /\ address = NoCard
    /\ storage = [u \in Users |-> <<EarlierCard>>]
    /\ handed = NothingHanded
    /\ Mounted
    /\ CodecIdle

SpecOverlap == InitOverlap /\ [][NextOverlap]_vars

\* ------------------------------------------------------------------------
\* One new card, with room for a second handler and a second card: Create
\* is pressed only while the collection is empty, the editor may be closed
\* and the card opened again
\* ------------------------------------------------------------------------
NextSave ==
    \/ initializeApp
    \/ \E u \in Users : handleLogin(u)
    \/ handleLogout
    \/ savedCards = <<>> /\ handleCreateNewCard
    \/ \E id \in CardIds : handleEditCard(id)
    \/ closeEditor
    \/ \E c \in DataChanges \cup NearLimitChanges : handleDataChange(c[1], c[2])
    \/ handleSaveCardWithin(MaxTasks + 1, MaxCards + 1)
    \/ \E t \in Suspended, saved \in BOOLEAN : handleSaveCard_canvas(t, saved)
    \/ saveSuccessTimeout

SpecSave == InitLimit /\ [][NextSave]_vars

\* ------------------------------------------------------------------------
\* Properties
\* ------------------------------------------------------------------------
\* the payload was encoded and its token decoded
RoundTripDone == token # "" /\ outcome # NotDecoded

\* C1: decoding the token of a text-only payload succeeds and yields a payload
\* deep-equal to the one that was encoded
C1_RoundTrip == RoundTripDone => outcome.ok /\ outcome.val = plain

\* C1 witness: a payload whose name is outside ASCII and whose bio holds
\* quotes went through the round trip
C1_Witness ==
    /\ RoundTripDone
    /\ outcome.ok
    /\ Get(Get(outcome.val, "cardData"), "name") = JStr(<<Hangul, Arrow, Replacement>>)
    /\ Get(Get(outcome.val, "cardData"), "bio") = JStr(<<"{\"bio\":[1,2]}">>)

\* the standard base64 that compressAndEncode gives for the payload
StandardBase64 == compressAndEncode(plain)

\* C8: the token of a payload contains none of the characters + / =
C8_UrlSafe ==
    token # "" => \A i \in 1..Len(token) : SubSeq(token, i, i) \notin {"+", "/", "="}

\* C8 witness: a token was made from standard base64 that has all of + / =
C8_Witness ==
    /\ token # ""
    /\ {"+", "/", "="} \subseteq Range(StandardBase64)

\* the page is waiting for the decode of the card parameter
Decoding == initPc = "decode"

\* C2: when the decode of the card parameter fails (base64, gzip or JSON),
\* initializeApp's catch gets that failure and raises the invalid-link
\* alert, no card is received, and no error is left uncaught
C2_MalformedRejected ==
    [][Decoding /\ ~Decode(address).ok
          => /\ caught' = Decode(address).step
             /\ alert' = InvalidLinkAlert
             /\ receivedCard' = JNull
             /\ uncaught' = {}
             /\ initPc' = "done"]_vars

\* C2 witness: a page load ended with the alert for a gzip stream that did
\* not decompress
C2_Witness ==
    /\ caught = "gzip"
    /\ alert = InvalidLinkAlert
    /\ receivedCard = JNull
    /\ uncaught = {}

\* the fields ShareableCardPayload requires
RequiredCardFields ==
    {"name", "title", "company", "bio", "contactInfo", "socialLinks", "careerHistory"}

RequiredThemeFields == {"background", "text", "primary", "accent"}

HasRequiredFields(payload) ==
    /\ \A k \in RequiredCardFields : HasKey(Get(payload, "cardData"), k)
    /\ \A k \in RequiredThemeFields : HasKey(Get(payload, "theme"), k)

\* C3 as the specification states it: receivedCard is never a payload that
\* lacks a required field
C3_IncompleteRejected == receivedCard # JNull => HasRequiredFields(receivedCard)

\* C4: a decode that is not accepted raises the invalid-link alert and
\* leaves the address without card parameter, and a page that loads
\* without card parameter does not decode
C4_AddressCleaned ==
    [][/\ Decoding /\ ~Accepted(Decode(address))
             => alert' = InvalidLinkAlert /\ address' = NoCard
       /\ initPc = "start" /\ address = NoCard => initPc' # "decode"]_vars

\* C4 witness: a link whose payload has no theme was rejected: the alert is
\* up and the address has no card parameter
C4_Witness ==
    /\ caught = "Invalid card data structure"
    /\ alert = InvalidLinkAlert
    /\ address = NoCard
    /\ initPc = "done"

\* t takes a step: it is resumed, or dropped by a page load
Resumed(t) == CopiesIn(t, tasks') < CopiesIn(t, tasks)

\* the text of the length fallback that goes to the clipboard
FallbackClipboardText(cardName) == Cat(FallbackShareText(cardName), <<" " \o BaseUrl>>)

\* what createAndShareLink may hand over for a link that is too long
IsFallback(given, cardName) ==
    \/ given = NothingHanded
    \/ given = ToShare(DigitalCard, FallbackShareText(cardName), BaseUrl)
    \/ given = ToClipboard(FallbackClipboardText(cardName))

\* C5: when createAndShareLink has assembled a URL of more than 2000
\* characters, every step of that call hands over nothing or the fallback
\* (the short text and the bare base URL), never the URL
C5_LengthFallback ==
    [][\A t \in Suspended :
          t.kind = "share" /\ Resumed(t) /\ Len(Link(t.data)) > UrlLengthLimit
             => IsFallback(handed', Get(Get(t.data, "cardData"), "name"))]_vars

\* C5 witness: the share sheet was given the fallback for a link that is
\* too long
C5_Witness ==
    /\ handed.sink = "share"
    /\ handed.url = BaseUrl
    /\ \E t \in Suspended :
          t.kind = "share" /\ t.pc = "share" /\ Len(Link(t.data)) > UrlLengthLimit

\* C6 as the specification states it: nothing longer than 2000 characters
\* is handed to the share sheet or the clipboard as a link
C6_NoLongUrl == handed.sink # "none" => Len(HandedLink) <= UrlLengthLimit

\* the payload in the link that was handed over
HandedPayload == Decode(CardParamOf(HandedLink)).val

\* C7 as the specification states it: the payload of a link that is handed
\* over has neither profilePicture nor bannerImage
C7_NoMedia ==
    handed.sink # "none" /\ CardParamOf(HandedLink) # NoCard
       => /\ ~HasKey(Get(HandedPayload, "cardData"), "profilePicture")
          /\ ~HasKey(Get(HandedPayload, "cardData"), "bannerImage")

\* the fields createAndShareLink drops
DroppedFields == {"profilePicture", "bannerImage", "layout", "fontFamily"}

\* C9 as the specification states it: a received card without the dropped
\* fields is displayed without an error
C9_DisplaysWithoutDropped ==
    /\ receivedCard # JNull
    /\ HasRequiredFields(receivedCard)
    /\ \A k \in DroppedFields : ~HasKey(Get(receivedCard, "cardData"), k)
    => uncaught = {}

\* C10 as the specification states it: once the page is up, a received card
\* is on screen, and the cards in storage change only with a user logged in
C10_ShownAndImported ==
    [][/\ initPc' = "done" /\ receivedCard' # JNull => RenderError \notin uncaught'
       /\ currentUser = NoUser /\ (\A t \in Suspended : t.user = NoUser)
             => UNCHANGED storage]_vars

\* the step in which handler t, awaiting compressAndEncode, ends without
\* going on to a hand-over: its promise was rejected
EncodeRejected(t) ==
    /\ t.kind \in {"share", "copy"} /\ t.pc = "encode"
    /\ Resumed(t)
    /\ tasks' = RemoveTask(tasks, t)
    /\ initPc' = "done"

FailureNotice(t) == IF t.kind = "share" THEN LinkFailedAlert ELSE CopyFailedAlert

\* C11: when compressAndEncode rejects in createAndShareLink or in
\* handleCopyShareLink, that step raises the handler's could-not-create-link
\* alert, gives nothing to navigator.share or the clipboard, and leaves
\* copySuccess as it was
C11_EncodeFailureAborts ==
    [][\A t \in Suspended :
          EncodeRejected(t) => /\ alert' = FailureNotice(t)
                               /\ alert' # NoAlert
                               /\ handed' = NothingHanded
                               /\ copySuccess' = copySuccess]_vars

\* C11 witness: a share has just been aborted with the notice, nothing was
\* handed over and copySuccess is not set
C11_Witness ==
    /\ alert = LinkFailedAlert
    /\ handed = NothingHanded
    /\ tasks = EmptyTasks
    /\ ~isExporting /\ ~copySuccess
    /\ appMode = "editor"

\* a page load whose card parameter will not be accepted
LoadingBadLink == isLoadingApp /\ address # NoCard /\ ~Accepted(Decode(address))

\* the login screen: loading is over, nobody is logged in, nothing is shown
\* in the received-card modal and no render has thrown
LoginScreen ==
    /\ ~isLoadingApp
    /\ currentUser = NoUser
    /\ receivedCard = JNull
    /\ uncaught = {}

\* C12: a page load whose card parameter fails to decode (or decodes to
\* something that is not a card) always gets to the end of initializeApp:
\* isLoadingApp becomes false and the login screen is up, with receivedCard
\* still null and nothing uncaught
C12_FailedDecodeCompletes == LoadingBadLink ~> LoginScreen

\* C12 witness: the login screen right after the JSON of the decoded text
\* failed to parse
C12_Witness == caught = "json" /\ alert = InvalidLinkAlert /\ LoginScreen

\* the browser loads the page anew
PageLoad == initPc' = "start" /\ isLoadingApp' /\ receivedCard' = JNull /\ tasks' = EmptyTasks

\* C13: within one page load the card parameter is decoded at most once: a
\* decode begins only from the start of initializeApp, a decode that settled
\* is over, initializeApp starts again only with a new page load, and a
\* decode that failed leaves no card parameter for a reload to decode again
C13_DecodedOnce ==
    [][/\ initPc' = "decode" /\ initPc # "decode" => initPc = "start"
       /\ initPc = "decode" /\ initPc' # "decode" => initPc' = "done"
       /\ initPc = "done" /\ initPc' # "done" => PageLoad
       /\ Decoding /\ ~Accepted(Decode(address)) => initPc' = "done" /\ address' = NoCard]_vars

\* C13 witness: the one decode of a page load failed at the base64 step and
\* initializeApp is over
C13_Witness ==
    /\ caught = "base64"
    /\ initPc = "done"
    /\ address = NoCard
    /\ ~isLoadingApp

IsSharing(t) == t.kind \in {"share", "copy"}

\* the step in which an invocation of a sharing handler begins
ShareBegins ==
    \E t \in BagToSet(tasks') :
        IsSharing(t) /\ t.pc = "encode" /\ CopiesIn(t, tasks') > CopiesIn(t, tasks)

\* the step in which invocation t is resumed and returns
ShareReturns(t) ==
    Resumed(t) /\ BagCardinality(tasks') < BagCardinality(tasks) /\ initPc' = "done"

\* the step in which invocation t is resumed and suspends at its next await
ShareGoesOn(t) ==
    Resumed(t) /\ BagCardinality(tasks') = BagCardinality(tasks)

\* C14: an invocation of createAndShareLink or handleCopyShareLink sets
\* isExporting when it begins, leaves isExporting and exportMessage alone at
\* every await it passes, and sets isExporting to false and exportMessage to
\* the empty string in the one step in which it returns, whether the link
\* was handed over, the fallback was taken or something failed
C14_ExportResetOnce ==
    [][/\ ShareBegins => isExporting' /\ exportMessage' = "Creating share link..."
       /\ \A t \in Suspended :
             IsSharing(t) =>
                 /\ ShareGoesOn(t) => UNCHANGED <<isExporting, exportMessage>>
                 /\ ShareReturns(t) => ~isExporting' /\ exportMessage' = ""]_vars

\* C14 witness: a sharing handler has returned after its clipboard write
\* succeeded, and the export state is reset
C14_Witness ==
    /\ copySuccess
    /\ ~isExporting /\ exportMessage = ""
    /\ tasks = EmptyTasks
    /\ initPc = "done"

\* the property names of an object
Keys(o) == {o.v[i].k : i \in 1..Len(o.v)}

\* the field sets of a payload: those of its cardData and of its theme
FieldsOf(payload) == <<Keys(Get(payload, "cardData")), Keys(Get(payload, "theme"))>>

\* C15 as the specification states it: what handleCopyShareLink gives to
\* compressAndEncode has the same fields as what createAndShareLink would
\* give to it for the same card
C15_SamePayloadShape ==
    \A t \in Suspended :
        t.kind = "copy" => FieldsOf(t.data) = FieldsOf(SimplifiedData(t.data))

NoneOf(str, chars) == \A i \in 1..Len(str) : SubSeq(str, i, i) \notin chars

\* a link to a card was handed over (the length fallback hands over the
\* page's own address)
CardLinkHanded == handed.sink # "none" /\ HandedLink \notin {"", BaseUrl}

\* C17: a card link that is handed to the share sheet or the clipboard is
\* the page's protocol, host and path, then ?card=, then the token, and
\* nothing else: the token holds no further query parameter and no
\* fragment, and it decodes, whatever card parameter the page's own
\* address holds at that time
C17_ShareUrlShape ==
    CardLinkHanded =>
        LET param == CardParamOf(HandedLink)
        IN  /\ HandedLink = BaseUrl \o CardQuery \o param
            /\ param # NoCard
            /\ NoneOf(param, {"?", "&", "#", "=", "/", " "})
            /\ Decode(param).ok

\* C17 witness: a card link was handed over by a page whose own address
\* holds the card parameter of another link
C17_Witness ==
    /\ CardLinkHanded
    /\ address # NoCard
    /\ CardParamOf(HandedLink) # address

\* the ids of the cards that are stored for user u
StoredIds(store, u) == {store[u][i].id : i \in 1..Len(store[u])}

\* C18 as the README states it: somebody who does not know the owner's
\* password never gets a non-public card of the owner listed, and no step of
\* theirs changes or deletes a non-public card stored for the owner
C18_OwnDataOnly ==
    [][/\ \A i \in 1..Len(savedCards') :
             ~savedCards'[i].isPublic => savedCards'[i].id \in StoredIds(storage', Visitor)
       /\ \A j \in 1..Len(storage[Owner]) :
             ~storage[Owner][j].isPublic
                 => \E k \in 1..Len(storage'[Owner]) : storage'[Owner][k] = storage[Owner][j]]_vars

\* the card parameter that the decode in flight was begun for is no longer
\* in the address
ClearedInFlight == initPc = "decode" /\ address # cardDataParam

\* C19 as the specification states it: a decode whose card parameter was
\* cleared while it was in flight is abandoned: when it settles, receivedCard
\* is not set and no notice is raised
C19_AbandonedWhenCleared ==
    [][ClearedInFlight /\ initPc' = "done" => receivedCard' = JNull /\ alert' = NoAlert]_vars

\* every entry of the list xs has exactly the property names in names
EntriesHave(xs, names) ==
    /\ xs.t = "arr"
    /\ \A i \in 1..Len(xs.v) : xs.v[i].t = "obj" /\ Keys(xs.v[i]) = {Packed(k) : k \in names}

\* ShareableCardPayload, field by field
IsShareableCardPayload(payload) ==
    LET cd == Get(payload, "cardData")
    IN  /\ Keys(payload) = {Packed("cardData"), Packed("theme")}
        /\ Keys(cd) = {Packed(k) : k \in RequiredCardFields}
        /\ EntriesHave(Get(cd, "contactInfo"), {"type", "value"})
        /\ EntriesHave(Get(cd, "socialLinks"), {"platform", "url"})
        /\ EntriesHave(Get(cd, "careerHistory"),
                       {"title", "company", "startDate", "endDate", "description"})
        /\ Keys(Get(payload, "theme")) = {Packed(k) : k \in RequiredThemeFields}

\* C20 as the specification states it: what createAndShareLink gives to
\* compressAndEncode has exactly the fields of ShareableCardPayload, in
\* cardData, in every entry of its three lists and in theme
C20_ExactFieldSet ==
    \A t \in Suspended : t.kind = "share" => IsShareableCardPayload(t.data)

\* standard base64 with its padding: a multiple of 4 characters of the
\* alphabet, of which the last one or two may be '='
IsPaddedBase64(str) ==
    LET cs == Chars(str)
        pads == Cardinality({i \in 1..Len(cs) : cs[i] = "="})
    IN  /\ Len(cs) % 4 = 0
        /\ pads <= 2
        /\ \A i \in 1..Len(cs) :
              IF i > Len(cs) - pads THEN cs[i] = "=" ELSE cs[i] \in Range(B64Alphabet)

\* C21: for every string, fromUrlSafeBase64 returns a string whose length
\* is a multiple of 4, made of the input with at most three '=' behind it;
\* and for every padded standard base64 string b,
\* fromUrlSafeBase64(toUrlSafeBase64(b)) is b
C21_FromInvertsTo ==
    /\ outcome.ok =>
          /\ Len(outcome.val) % 4 = 0
          /\ Len(outcome.val) - Len(token) \in 0..3
          /\ \A i \in (Len(token) + 1)..Len(outcome.val) : SubSeq(outcome.val, i, i) = "="
    /\ again.ok /\ IsPaddedBase64(token) => again.val = token

\* C21 witness: a padded base64 string with both replaced characters and
\* two '=' went through toUrlSafeBase64 and fromUrlSafeBase64 and came back
C21_Witness ==
    /\ token = "+/=="
    /\ again.ok /\ again.val = token
    /\ outcome.ok /\ outcome.val = token


\* the link createAndShareLink has assembled for invocation t
AssembledUrl(t) == Link(t.data)

\* what createAndShareLink hands over on its direct path: the share sheet
\* or the clipboard gets the URL itself
IsDirect(given, url) ==
    \/ given.sink = "share" /\ given.url = url
    \/ given = ToClipboard(<<url>>)

\* C22: when createAndShareLink has its link and goes on to hand it over, it
\* hands over the URL itself if and only if the URL has at most 2000
\* characters (a URL of exactly 2000 characters is handed over), hands over
\* the short text with the bare base URL if and only if it has more, and in
\* both cases raises no notice
C22_StrictLimit ==
    [][\A t \in Suspended :
          t.kind = "share" /\ t.pc = "encode" /\ ShareGoesOn(t) =>
              LET url == AssembledUrl(t)
                  cardName == Get(Get(t.data, "cardData"), "name")
              IN  /\ handed' # NothingHanded
                  /\ IsDirect(handed', url) <=> Len(url) <= UrlLengthLimit
                  /\ IsFallback(handed', cardName) <=> Len(url) > UrlLengthLimit
                  /\ alert' = NoAlert]_vars

\* C22 witness: a URL of exactly 2000 characters has been given to the share
\* sheet, and no notice was raised
C22_Witness ==
    /\ handed.sink = "share"
    /\ Len(handed.url) = UrlLengthLimit
    /\ handed.url # BaseUrl
    /\ alert = NoAlert
    /\ \E t \in Suspended : t.kind = "share" /\ t.pc = "share" /\ AssembledUrl(t) = handed.url

\* the invocation of a sharing handler that a click in the editor begins
BegunInEditor(t) ==
    /\ appMode = "editor"
    /\ IsSharing(t) /\ t.pc = "encode"
    /\ CopiesIn(t, tasks') > CopiesIn(t, tasks)

\* the saved cards that carry the id the editor is editing
EditedSavedCards ==
    {i \in 1..Len(savedCards) : editingCardId # NoId /\ savedCards[i].id = editingCardId}

\* what handleShare encodes for { cardData, theme }, and what
\* handleCopyShareLink encodes for it
PayloadOf(t, data, colors) ==
    IF t.kind = "share" THEN SimplifiedData(CardAndTheme(data, colors))
    ELSE CardAndTheme(data, colors)

\* C23: a Share or Copy Share Link click in the editor builds its payload
\* from the saved card with the id being edited when savedCards holds one,
\* whatever the unsaved edits are, and from the editor's cardData and theme
\* when it holds none
C23_SharesPersisted ==
    [][\A t \in BagToSet(tasks') :
          BegunInEditor(t) =>
              IF EditedSavedCards # {}
              THEN \E i \in EditedSavedCards :
                      t.data = PayloadOf(t, savedCards[i].cardData, savedCards[i].theme)
              ELSE t.data = PayloadOf(t, cardData, theme)]_vars

\* C23 witness: Share was pressed in the editor on a saved card with an
\* unsaved edit, and the payload is the saved card's, not the edited one
C23_Witness ==
    /\ appMode = "editor"
    /\ \E i \in EditedSavedCards :
          /\ savedCards[i].cardData # cardData
          /\ \E t \in Suspended :
                /\ t.kind = "share" /\ t.pc = "encode"
                /\ t.data = SimplifiedData(CardAndTheme(savedCards[i].cardData, savedCards[i].theme))
                /\ t.data # SimplifiedData(CardAndTheme(cardData, theme))
\* what the catch block around navigator.share writes to the clipboard for
\* invocation t: the text and the base URL on the fallback path, the URL on
\* the direct path
RecoveryText(t) ==
    IF Len(AssembledUrl(t)) > UrlLengthLimit
    THEN FallbackClipboardText(Get(Get(t.data, "cardData"), "name"))
    ELSE <<AssembledUrl(t)>>

\* the step in which navigator.share rejects for invocation t
ShareRejected(t) == t.kind = "share" /\ t.pc = "share" /\ ShareGoesOn(t)

\* C24: when navigator.share rejects in createAndShareLink, on the direct
\* path and on the fallback path, that step raises no notice and gives the
\* clipboard what was to be shared (the URL, or the short text with the base
\* URL), the handler stays in flight, and when that clipboard write resolves
\* copySuccess is set and no notice is raised; the link-creation-failed
\* notice follows a rejected share only when the clipboard write rejects too
C24_ShareRejectionRecovers ==
    [][\A t \in Suspended :
          /\ ShareRejected(t) =>
                /\ alert' = NoAlert
                /\ handed' = ToClipboard(RecoveryText(t))
                /\ [t EXCEPT !.pc = "recover", !.text = <<>>] \in BagToSet(tasks')
                /\ isExporting' = isExporting
          /\ t.kind = "share" /\ t.pc = "share" /\ ShareReturns(t) => alert' = NoAlert
          /\ t.kind = "share" /\ t.pc = "recover" /\ ShareReturns(t) =>
                \/ copySuccess' /\ alert' = NoAlert
                \/ copySuccess' = copySuccess /\ alert' = LinkFailedAlert]_vars

\* C24 witness: the share sheet has rejected on the fallback path; the
\* handler waits for the clipboard write of its catch block, the clipboard
\* holds the short text with the base URL and no notice was raised
C24_Witness ==
    \E t \in Suspended :
        /\ t.kind = "share" /\ t.pc = "recover"
        /\ Len(AssembledUrl(t)) > UrlLengthLimit
        /\ handed = ToClipboard(RecoveryText(t))
        /\ alert = NoAlert
        /\ isExporting
\* the step in which handleAddReceivedCard, resumed as t, writes the
\* collection of its user
ImportPersisted(t) == t.kind = "add" /\ Resumed(t) /\ storage' # storage

\* C25 as it is stated: whatever ran between the click on Add to My Cards
\* and the write, the cards persisted for the user after the import are the
\* cards persisted before it with one card appended
C25_ImportKeepsCards ==
    [][\A t \in Suspended :
          ImportPersisted(t) =>
              \E i \in 1..Len(storage'[t.user]) :
                  /\ i = Len(storage'[t.user])
                  /\ SubSeq(storage'[t.user], 1, i - 1) = storage[t.user]
                  /\ storage'[t.user][i].id \notin StoredIds(storage, t.user)]_vars
\* a share-link creation has started and has not finished
ShareInFlight == \E t \in Suspended : IsSharing(t)

\* C26 as it is stated: whatever handlers overlap, isExporting is true
\* while a share-link creation is in flight
C26_ExportingWhileSharing == ShareInFlight => isExporting
\* the invocation of createAndShareLink that a click in the Hub begins
BegunInHub(t) ==
    /\ appMode = "hub"
    /\ IsSharing(t) /\ t.pc = "encode"
    /\ CopiesIn(t, tasks') > CopiesIn(t, tasks)

\* C27 as it is stated: no sharing handler begins for a saved card that is
\* private, neither from the Hub (the card whose Share button was pressed)
\* nor from the editor (the saved card being edited)
C27_PrivateNeverShared ==
    [][\A t \in BagToSet(tasks') :
          /\ BegunInEditor(t) => \A i \in EditedSavedCards : savedCards[i].isPublic
          /\ BegunInHub(t) =>
                \E i \in 1..Len(savedCards) :
                    /\ savedCards[i].isPublic
                    /\ t.data = PayloadOf(t, savedCards[i].cardData, savedCards[i].theme)]_vars
\* the step in which handleAddReceivedCard, suspended as t, is resumed
\* and runs to its end
ImportEnds(t) == t.kind = "add" /\ Resumed(t) /\ initPc' = "done"

\* the card of the received payload is among the cards
HoldsReceived(cards, payload) ==
    \E i \in 1..Len(cards) :
        /\ cards[i].cardData = Get(payload, "cardData")
        /\ cards[i].theme = Get(payload, "theme")

\* C28 as it is stated: when handleAddReceivedCard ends with receivedCard
\* cleared and the card parameter removed, the new card is in savedCards
\* and in localStorage; when the save failed, the received card is still
\* there
C28_DiscardedOnlyWhenSaved ==
    [][\A t \in Suspended :
          ImportEnds(t) =>
              /\ receivedCard' = JNull /\ address' = NoCard =>
                    /\ HoldsReceived(savedCards', t.data)
                    /\ HoldsReceived(storage'[t.user], t.data)
              /\ storage' = storage => receivedCard' = receivedCard]_vars

\* the step is the Dismiss button's: nothing but receivedCard and the
\* address may change
DismissStep == UNCHANGED <<storage, sessionVars, editorVars, exportVars, tasks, initVars>>

\* the step is the end of a handleAddReceivedCard
AddStep == \E t \in Suspended : ImportEnds(t)

\* C29: while the page lives, a receivedCard that a decode has set changes
\* only by becoming null, only in a step of Dismiss or at the end of
\* handleAddReceivedCard, and that step removes the card parameter from the
\* address; login, logout, editing and saving leave it as it is
C29_ReceivedCardKept ==
    [][receivedCard # JNull /\ receivedCard' # receivedCard /\ ~PageLoad =>
          /\ receivedCard' = JNull
          /\ address' = NoCard
          /\ DismissStep \/ AddStep]_vars

\* C29 witness: the received card is still held, with its card parameter in
\* the address, after a login and a card that was edited and saved
C29_Witness ==
    /\ receivedCard # JNull
    /\ address # NoCard
    /\ Interactive
    /\ currentUser # NoUser
    /\ saveSuccess
    /\ savedCards # <<>>
    /\ appMode = "editor"
\* the step in which handleSaveCard, suspended as t, is resumed
SaveEnds(t) == t.kind = "save" /\ t.pc = "canvas" /\ Resumed(t) /\ initPc' = "done"

====
